---------------------------- MODULE Spec2Model ----------------------------
(***************************************************************************)
(* Model of the mobile QA agent: the two orchestrators (TestRunner of      *)
(* main.py and the LangGraph workflow of app.py), the Planner's            *)
(* plan_next_action and the Supervisor's evaluate_test_result.             *)
(***************************************************************************)
EXTENDS Integers, Sequences, FiniteSets, TLC

(***************************************************************************)
(* Bounds of the model.                                                    *)
(***************************************************************************)
\* largest max_steps a test case of the model configures
MaxSteps == 3
\* largest number of test cases in a suite
MaxTests == 2

\* Number of execute_action calls of a device session.
MaxCalls == 2
\* Longest action history handed to the planner.
MaxHistory == 5
\* Model calls followed in one run of the rate limiters.
MaxModelCalls == 3
\* Seconds the clock may be advanced between the calls.
MaxClock == 3

(***************************************************************************)
(* Program constants.                                                      *)
(***************************************************************************)
\* app.py should_continue: state["step_count"] >= 12
GraphStepLimit == 12

None == "None"

(***************************************************************************)
(* Orchestrator state (one test suite, run by main.py or by app.py).       *)
(***************************************************************************)
VARIABLES
    runner,       \* "main": TestRunner.run_test_suite, "graph": app.run_test_suite
    num_tests,    \* len(test_cases)
    agents,       \* which planner, executor and supervisor the runner holds
    test_no,      \* index (from 1) of the test case being run
    max_steps,    \* test_case["max_steps"] (main.py only)
    pc,           \* position of the orchestrator in the current test case
    step_count,   \* main.py: loop variable `step`; app.py: state["step_count"]
    history,      \* execution_history / state["history"]
    last_plan,    \* the action the planner returned last (action_type)
    screenshot,   \* the last captured frame ("frame") or None
    verdict,      \* the Verdict of the current test case, NoVerdict before it
    evaluations,  \* number of calls of the final evaluation in this test case
    results       \* main.py: results of the finished test cases

orchVars == <<runner, agents, num_tests, test_no, max_steps, pc, step_count,
              history, last_plan, screenshot, verdict, evaluations, results>>

(***************************************************************************)
(* State of one call of PlannerAgent.plan_next_action (planner.py 70-188). *)
(***************************************************************************)
VARIABLES
    p_pc,           \* "off", "start", "loop" (in the retry loop), "returned",
                    \* "raised" (the call raised before the loop)
    p_history,      \* the action_history argument
    p_frame,        \* the screenshot argument: "frame" or None
    p_summary,      \* the lines of history_summary put into the request
    p_max_retries,  \* the max_retries argument
    p_attempt,      \* the loop variable `attempt` of the next iteration
    p_outcome,      \* what the model call of the last attempt gave
    p_classes,      \* how each attempt so far ended
    p_action,       \* the action returned
    p_sleeps        \* the time.sleep() waits between the attempts, in order

planVars == <<p_pc, p_max_retries, p_attempt, p_outcome, p_classes, p_action,
              p_sleeps, p_history, p_frame, p_summary>>

(***************************************************************************)
(* State of one call of SupervisorAgent.evaluate_test_result               *)
(* (supervisor.py 137-212).                                                *)
(***************************************************************************)
VARIABLES
    s_pc,           \* "off", "start", "loop", "returned", "raised"
    s_frame,        \* the final_screenshot argument: "frame" or None
    s_max_retries,  \* the max_retries argument
    s_attempt,      \* the loop variable `attempt` of the next iteration
    s_outcome,      \* what the model call of the last attempt gave
    s_verdict,      \* the evaluation returned
    s_sleeps        \* the time.sleep() waits between the attempts, in order

supVars == <<s_pc, s_frame, s_max_retries, s_attempt, s_outcome, s_verdict,
             s_sleeps>>

(***************************************************************************)
(* State of one call of AIProvider.generate_response                       *)
(* (ai_provider.py 83-210).                                                *)
(***************************************************************************)
VARIABLES
    g_pc,           \* "off", "loop", "returned"
    g_max_retries,  \* max_retries after line 100
    g_attempt,      \* the loop variable `attempt` of the next iteration
    g_outcome,      \* what the HTTP request of the last attempt gave
    g_result,       \* the value returned
    g_sleeps,       \* the time.sleep() waits after the attempts, in order
    g_requests,     \* number of requests.post calls made
    g_kinds,        \* how each attempt ended (the kind of its outcome), in order
    g_call_count,   \* self.call_count, counted from the start of the call
    g_last,         \* self.last_call_time of the provider
    g_waits         \* the time.sleep() waits of _rate_limit in ticks, in order

provVars == <<g_pc, g_max_retries, g_attempt, g_outcome, g_result, g_sleeps,
              g_requests, g_kinds, g_call_count, g_last, g_waits>>

(***************************************************************************)
(* State of a device session of ExecutorAgent (executor.py) on top of      *)
(* ADBInterface (adb.py): a sequence of execute_action calls.              *)
(***************************************************************************)
VARIABLES
    x_pc,        \* "off", "idle", "start", "returned", "raised"
    x_action,    \* the action argument of the call
    x_device,    \* what the device and the vision tools answer during the call
    x_result,    \* the dict returned
    x_commands,  \* the adb commands of the call that reached the device
    x_slept,     \* seconds blocked in time.sleep by _execute_wait
    x_cache,     \* ADBInterface._screen_size_cache
    x_calls,     \* number of execute_action calls started
    x_queries    \* number of `wm size` round trips of the session

execVars == <<x_pc, x_action, x_device, x_result, x_commands, x_slept, x_cache,
              x_calls, x_queries>>

(***************************************************************************)
(* State of one call of SupervisorAgent.should_continue                    *)
(* (supervisor.py 70-135).                                                 *)
(***************************************************************************)
VARIABLES
    c_pc,           \* "off", "start", "loop", "returned", "raised"
    c_frame,        \* the current_screenshot argument: "frame" or None
    c_actions,      \* len(action_history)
    c_max_retries,  \* the max_retries argument
    c_attempt,      \* the loop variable `attempt` of the next iteration
    c_outcome,      \* what the model call of the last attempt gave
    c_decision,     \* the decision returned
    c_sleeps,       \* the time.sleep() waits between the attempts, in order
    c_blocked       \* the consecutive steps before the call for which the
                    \* screen analysis had blocking_screen set and no new
                    \* element (main.py 120-122); not an argument of the call

contVars == <<c_pc, c_frame, c_actions, c_max_retries, c_attempt, c_outcome,
              c_decision, c_sleeps, c_blocked>>

(***************************************************************************)
(* The rate limiters of the components that call the model: every          *)
(* component keeps its own last_call_time (planner.py 27, supervisor.py    *)
(* 29, vision.py 42).  Time is counted in seconds.                         *)
(***************************************************************************)
VARIABLES
    r_now,          \* time.time() in quarters of a second (ticks)
    r_last,         \* last_call_time of every component
    r_log,          \* the model calls made: <<component, time>>, in order
    r_waits         \* the time.sleep() waits of the limiters:
                    \* <<component, seconds>>, in order

rateVars == <<r_now, r_last, r_log, r_waits>>

(***************************************************************************)
(* State of the reporting of results: TestRunner._print_suite_summary      *)
(* (main.py 254-281) and SupervisorAgent.format_test_report                *)
(* (supervisor.py 214-239).                                                *)
(***************************************************************************)
VARIABLES
    rep_pc,         \* "off", "start", "summary", "formatted"
    rep_results,    \* the results handed to _print_suite_summary
    rep_summary,    \* what the summary prints
    rep_eval,       \* the evaluation handed to format_test_report
    rep_report      \* the RESULT and STATUS lines of the report

repVars == <<rep_pc, rep_results, rep_summary, rep_eval, rep_report>>

vars == <<orchVars, planVars, supVars, provVars, execVars, contVars,
          rateVars, repVars>>

\* The action kinds of the prompt of planner.py (lines 81-87).
ActionKinds == {"tap", "type", "press_key", "swipe", "wait", "complete"}

\* What the planner hands to the orchestrators of this model: an action that
\* is executed, or complete.
PlannedKinds == {"tap", "complete"}

\* The values of result["status"] (main.py 141, app.py 55), as a fitting
\* executor returns them; the results of the executor of src have no status
\* key (MainExecuteRaises, ExecutorNodeRaises).
Statuses == {"success", "failed"}

NoVerdict == [result |-> None, bug_found |-> FALSE]

\* The verdicts the evaluation can hand back (supervisor.py 182-191, 200-212).
Verdicts == [result : {"PASS", "FAIL"}, bug_found : BOOLEAN]

\* Mutant: the entry is numbered from 0.
HistoryEntry_FromZero(step, action, status) ==
    [step |-> step - 1, action |-> action, status |-> status]

\* main.py 138-144 / app.py 52-57: the entry appended for an executed action.
HistoryEntry(step, action, status) ==
    [step |-> step, action |-> action, status |-> status]

(***************************************************************************)
(* Model responses.  A response text is a sequence of tokens: the code     *)
(* fence (three backquotes), the word "json", white space (" ", "\n"),     *)
(* words of prose, and JSON documents, each named by one token and         *)
(* described by JsonDocs.                                                  *)
(***************************************************************************)
\* The code fence of markdown: three backquotes.
Fence == "FENCE"

EmptyMap == [k \in {} |-> None]

WhiteSpace == {" ", "\n"}

\* The JSON documents of the model and the value json.loads gives for each.
JsonDocs ==
    [ TAP_FULL |->
        [type |-> "object",
         obj  |-> [action_type |-> "tap",
                   parameters  |-> [x_percent |-> 50, y_percent |-> 30],
                   reasoning   |-> "Tap the create button"]],
      TAP_XY |->
        [type |-> "object",
         obj  |-> [action_type |-> "tap",
                   parameters  |-> [x |-> 500, y |-> 300]]],
      WAIT_BARE |->
        [type |-> "object", obj |-> [action_type |-> "wait"]],
      COMPLETE |->
        [type |-> "object",
         obj  |-> [action_type |-> "complete", parameters |-> EmptyMap,
                   reasoning   |-> "Goal reached"]],
      SCROLL |->
        [type |-> "object",
         obj  |-> [action_type |-> "scroll", parameters |-> EmptyMap,
                   reasoning   |-> "Scroll down"]],
      NO_TYPE |->
        [type |-> "object",
         obj  |-> [parameters |-> EmptyMap, reasoning |-> "Thinking"]],
      ARRAY  |-> [type |-> "array", obj |-> EmptyMap],
      NUMBER |-> [type |-> "number", obj |-> EmptyMap],
      PASS_CLEAN |->
        [type |-> "object",
         obj  |-> [result |-> "PASS", reason |-> "Vault created",
                   bug_found |-> FALSE, details |-> "All steps done"]],
      PASS_BUG |->
        [type |-> "object",
         obj  |-> [result |-> "PASS", reason |-> "Done, icon is gray",
                   bug_found |-> TRUE, details |-> "Icon colour differs"]],
      FAIL_BUG |->
        [type |-> "object",
         obj  |-> [result |-> "FAIL", reason |-> "Button missing",
                   bug_found |-> TRUE, details |-> "No Print to PDF"]],
      FAIL_BARE |->
        [type |-> "object", obj |-> [result |-> "FAIL"]],
      MAYBE_BUG |->
        [type |-> "object",
         obj  |-> [result |-> "MAYBE", bug_found |-> TRUE]],
      NO_RESULT |->
        [type |-> "object",
         obj  |-> [reason |-> "Unclear", details |-> "Nothing to see"]],
      GO_ON |->
        [type |-> "object",
         obj  |-> [continue |-> TRUE, reasoning |-> "More steps needed"]],
      GO_ON_BARE |->
        [type |-> "object", obj |-> [continue |-> TRUE]],
      STOP |->
        [type |-> "object",
         obj  |-> [continue |-> FALSE, reasoning |-> "Objective achieved"]],
      NO_CONTINUE |->
        [type |-> "object", obj |-> [reasoning |-> "Hard to say"]] ]

DocTokens == DOMAIN JsonDocs

PlannerDocs == {"TAP_FULL", "TAP_XY", "WAIT_BARE", "COMPLETE", "SCROLL",
                "NO_TYPE", "ARRAY", "NUMBER"}

SupervisorDocs == {"PASS_CLEAN", "PASS_BUG", "FAIL_BUG", "FAIL_BARE",
                   "MAYBE_BUG", "NO_RESULT", "ARRAY", "NUMBER"}

\* A truncated JSON text: no document.
Broken == "{broken"

\* The ways a model wraps its answer.
Bare(d)        == <<d>>
FencedJson(d)  == <<Fence, "json", "\n", d, "\n", Fence>>
Fenced(d)      == <<Fence, "\n", d, "\n", Fence>>
Padded(d)      == <<"\n", d, " ">>
ProseBefore(d) == <<"Here", " ", "it", " ", "is:", "\n", d>>
ProseAround(d) == <<"Sure:", "\n", Fence, "json", "\n", d, "\n", Fence, "\n",
                    "Done.">>

Wrappings(d) == {Bare(d), FencedJson(d), Fenced(d), Padded(d), ProseBefore(d),
                 ProseAround(d)}

\* What provider.generate_content gives at one attempt: a response text, or
\* an exception with its message (in lower case, as after str(e).lower()).
TextOutcome(t)  == [kind |-> "text", text |-> t]
RaiseOutcome(m) == [kind |-> "raise", text |-> m]
NoOutcome       == [kind |-> "none", text |-> <<>>]

ErrorMessages == { <<"error", " ", "code:", " ", "429">>,
                   <<"rate_limit", " ", "exceeded">>,
                   <<"connection", " ", "reset">> }

OutcomesOver(docs) ==
    { TextOutcome(t) : t \in UNION { Wrappings(d) : d \in docs \cup {Broken} } }
    \cup { TextOutcome(<<>>) }
    \cup { RaiseOutcome(m) : m \in ErrorMessages }

(***************************************************************************)
(* Python string operations on token sequences.                            *)
(***************************************************************************)
RECURSIVE LStrip(_)
\* str.lstrip()
LStrip(t) == IF t # <<>> /\ Head(t) \in WhiteSpace THEN LStrip(Tail(t)) ELSE t

RECURSIVE RStrip(_)
\* str.rstrip()
RStrip(t) ==
    IF t # <<>> /\ t[Len(t)] \in WhiteSpace
    THEN RStrip(SubSeq(t, 1, Len(t) - 1)) ELSE t

\* str.strip()
Strip(t) == RStrip(LStrip(t))

\* str.startswith(prefix)
StartsWith(t, prefix) ==
    Len(t) >= Len(prefix) /\ SubSeq(t, 1, Len(prefix)) = prefix

\* str.endswith(suffix)
EndsWith(t, suffix) ==
    Len(t) >= Len(suffix)
    /\ SubSeq(t, Len(t) - Len(suffix) + 1, Len(t)) = suffix

\* t[n:]
DropFirst(t, n) == SubSeq(t, n + 1, Len(t))

\* t[:-n]
DropLast(t, n) == SubSeq(t, 1, Len(t) - n)

\* json.loads(text): the text is one document (white space around it is
\* allowed), else JSONDecodeError.
JsonLoads(t) ==
    LET body == Strip(t) IN
    IF Len(body) = 1 /\ body[1] \in DocTokens
    THEN [ok |-> TRUE, value |-> JsonDocs[body[1]]]
    ELSE [ok |-> FALSE, value |-> [type |-> "none", obj |-> EmptyMap]]

\* `if key not in d: d[key] = value`
WithDefault(d, key, value) ==
    IF key \in DOMAIN d THEN d ELSE d @@ (key :> value)

\* planner.py 158: error_msg holds 429 or rate_limit
IsRateLimit(msg) ==
    \E i \in 1..Len(msg) : msg[i] \in {"429", "rate_limit"}

RECURSIVE Pow2(_)
\* 2 ** n
Pow2(n) == IF n = 0 THEN 1 ELSE 2 * Pow2(n - 1)

(***************************************************************************)
(* _wait_for_rate_limit of PlannerAgent, SupervisorAgent and VisionTools   *)
(***************************************************************************)
Components == {"planner", "supervisor", "vision"}

\* planner.py 15, supervisor.py 18, vision.py 17: calls_per_minute=60
CallsPerMinute == 60

\* The clock counts quarters of a second: the delays of the code are whole
\* seconds, 1.5 (ACTION_DELAY), 0.75 (ACTION_DELAY * 0.5) and 0.5 seconds
\* (SCREENSHOT_DELAY).
TicksPerSecond == 4

\* A number of seconds on the clock.
Ticks(seconds) == seconds * TicksPerSecond

\* config.py 54: ACTION_DELAY = 1.5
ACTION_DELAY == Ticks(3) \div 2

\* config.py 55: SCREENSHOT_DELAY = 0.5
SCREENSHOT_DELAY == Ticks(1) \div 2

\* planner.py 26, supervisor.py 28, vision.py 41: 60.0 / calls_per_minute
MinInterval == Ticks(60) \div CallsPerMinute

\* Mutant: the limiter returns at once.
WaitForRateLimit_NoWait(now, last) == now

\* planner.py 33-43: the time at which _wait_for_rate_limit returns, called
\* at time `now` by a component whose last call was at time `last`.
WaitForRateLimit(now, last) ==
    IF now - last < MinInterval THEN now + (MinInterval - (now - last))
    ELSE now

\* last_call_time = 0 is the epoch; the process runs long after it, so the
\* clock starts one interval past every last_call_time.
RateOff ==
    /\ r_now = MinInterval
    /\ r_last = [c \in Components |-> 0]
    /\ r_log = <<>>
    /\ r_waits = <<>>

\* The limiters at the start of a call of component c, which has made no
\* model call yet or has made one just now.
RateStart(c) ==
    /\ r_now = MinInterval
    /\ \E l \in {0, MinInterval} :
          r_last = [d \in Components |-> IF d = c THEN l ELSE 0]
    /\ r_log = <<>>
    /\ r_waits = <<>>

\* planner.py 114-115, supervisor.py 102-104 and 168-170, vision.py 108-110:
\* the head of an attempt of component c.  _wait_for_rate_limit sleeps until
\* the interval is over and stores the time, the model is called, and the
\* attempt ends with `pause` seconds of time.sleep (0: none).  The attempt
\* starts at time `now`; the waits of r_waits are in ticks.
LimitedAt(c, now, pause) ==
    LET t == WaitForRateLimit(now, r_last[c]) IN
    /\ r_last' = [r_last EXCEPT ![c] = t]
    /\ r_log' = Append(r_log, <<c, t>>)
    /\ r_waits' = IF t > now THEN Append(r_waits, <<c, t - now>>)
                  ELSE r_waits
    /\ r_now' = t + Ticks(pause)

\* The same at the present time.
Limited(c, pause) == LimitedAt(c, r_now, pause)

\* Time passes between two calls (capture, device commands, parsing).
RateTick ==
    /\ r_now < MinInterval + MaxClock
    /\ r_now' = r_now + 1
    /\ UNCHANGED <<r_last, r_log, r_waits, orchVars, planVars, supVars,
                   provVars, execVars, contVars, repVars>>

\* planner.py 114-115, supervisor.py 102-104 and 168-170, vision.py 108-110:
\* a component waits for its own limiter and then calls the model.
RateCall ==
    /\ Len(r_log) < MaxModelCalls
    /\ \E c \in Components : Limited(c, 0)
    /\ UNCHANGED <<orchVars, planVars, supVars, provVars, execVars, contVars,
                   repVars>>

(***************************************************************************)
(* PlannerAgent.plan_next_action                                           *)
(***************************************************************************)
\* planner.py 70: max_retries=3
PlannerMaxRetries == 3

NoAction == [action_type |-> None, parameters |-> EmptyMap, reasoning |-> None]

\* Mutant: only the bare fence is cut from the front, the word json stays.
PlannerClean_KeepsJson(text) ==
    LET t0 == Strip(text)
        t1 == IF StartsWith(t0, <<Fence>>) THEN DropFirst(t0, 1) ELSE t0
        t2 == IF EndsWith(t1, <<Fence>>) THEN DropLast(t1, 1) ELSE t1
    IN  Strip(t2)

\* planner.py 116-126: strip the response and cut the code fences.
PlannerClean(text) ==
    LET t0 == Strip(text)
        t1 == IF StartsWith(t0, <<Fence, "json">>) THEN DropFirst(t0, 2) ELSE t0
        t2 == IF StartsWith(t1, <<Fence>>) THEN DropFirst(t1, 1) ELSE t1
        t3 == IF EndsWith(t2, <<Fence>>) THEN DropLast(t2, 1) ELSE t2
    IN  Strip(t3)

\* planner.py 113-139: the try block of one attempt.  exc is the exception
\* it ends with ("none": it returns `action`).
PlannerTry(o) ==
    IF o.kind = "raise"
    THEN [exc |-> "Exception", msg |-> o.text, action |-> NoAction]
    ELSE LET j == JsonLoads(PlannerClean(o.text)) IN
         IF ~j.ok
         THEN [exc |-> "JSONDecodeError", msg |-> <<"expecting", " ", "value">>,
               action |-> NoAction]
         ELSE IF j.value.type = "number"
         THEN [exc |-> "Exception",
               msg |-> <<"argument", " ", "of", " ", "type", " ", "int", " ",
                         "is", " ", "not", " ", "iterable">>,
               action |-> NoAction]
         ELSE IF j.value.type = "array" \/ "action_type" \notin DOMAIN j.value.obj
         THEN [exc |-> "Exception", msg |-> <<"missing", " ", "action_type">>,
               action |-> NoAction]
         ELSE [exc |-> "none", msg |-> <<>>,
               action |-> WithDefault(
                            WithDefault(j.value.obj, "parameters", EmptyMap),
                            "reasoning", "No reasoning provided")]

\* planner.py 149-153
ParseFallback ==
    [action_type |-> "complete", parameters |-> EmptyMap,
     reasoning |-> "Failed to parse response"]

\* planner.py 166-170
RateLimitFallback ==
    [action_type |-> "wait", parameters |-> [seconds |-> 30],
     reasoning |-> "Rate limit exceeded"]

\* planner.py 178-182
ErrorFallback ==
    [action_type |-> "complete", parameters |-> EmptyMap,
     reasoning |-> "Error: str(e)"]

\* planner.py 184-188
RetriesFallback ==
    [action_type |-> "complete", parameters |-> EmptyMap,
     reasoning |-> "Failed after retries"]

\* Mutant: the first failed attempt already gives the fallback.
PlannerAttempt_GivesUp(o, attempt, max_retries) ==
    LET r == PlannerTry(o) IN
    IF r.exc = "none"
    THEN [class |-> "ok", done |-> TRUE, action |-> r.action, sleep |-> 0]
    ELSE [class |-> "parse", done |-> TRUE, action |-> ParseFallback,
          sleep |-> 2]

\* planner.py 113-182: one iteration of the retry loop.  class names how the
\* attempt ended; done: the call returns `action`; else it sleeps `sleep`
\* seconds and goes on.
PlannerAttempt(o, attempt, max_retries) ==
    LET r    == PlannerTry(o)
        last == ~(attempt < max_retries - 1)
    IN
    IF r.exc = "none"
    THEN [class |-> "ok", done |-> TRUE, action |-> r.action, sleep |-> 0]
    ELSE IF r.exc = "JSONDecodeError"
    THEN [class |-> "parse", done |-> last, action |-> ParseFallback,
          sleep |-> 2]
    ELSE IF IsRateLimit(r.msg)
    THEN [class |-> "rate_limit", done |-> last, action |-> RateLimitFallback,
          sleep |-> 15 * Pow2(attempt)]
    ELSE [class |-> IF o.kind = "raise" THEN "error" ELSE "invalid",
          done |-> last, action |-> ErrorFallback, sleep |-> 3]

PlannerOutcomes == OutcomesOver(PlannerDocs)

\* planner.py 73: the entries kept for the request
HistoryWindow == 3

\* Mutant: the slice takes the oldest entries (action_history[:3]).
RecentActions_Oldest(action_history) ==
    IF Len(action_history) > HistoryWindow
    THEN SubSeq(action_history, 1, HistoryWindow)
    ELSE action_history

\* planner.py 73: action_history[-3:] if len(action_history) > 3 else
\* action_history
RecentActions(action_history) ==
    IF Len(action_history) > HistoryWindow
    THEN SubSeq(action_history, Len(action_history) - HistoryWindow + 1,
                Len(action_history))
    ELSE action_history

\* planner.py 75: the line "Step {step}: {action_type} - {reasoning}" of one
\* entry, 'N/A' standing for a missing reasoning.
SummaryLine(a) ==
    [step |-> a.step, action_type |-> a.action.action_type,
     reasoning |-> IF "reasoning" \in DOMAIN a.action THEN a.action.reasoning
                   ELSE "N/A"]

\* planner.py 73-77: the lines joined into history_summary, in order
HistorySummary(action_history) ==
    LET recent_actions == RecentActions(action_history) IN
    [i \in 1..Len(recent_actions) |-> SummaryLine(recent_actions[i])]

\* The entry of step i of a history, in the shape planner.py 75 reads: the
\* action of the step as a dict, with or without a reasoning.
PlannedEntry(i) ==
    [step |-> i,
     action |-> IF i % 2 = 1
                THEN [action_type |-> "tap", reasoning |-> "open the menu"]
                ELSE [action_type |-> "type"]]

\* The entry of step i as main.py 138-145 appends it: the action is the
\* action_type, a string (the field `name` stands for it), on which
\* a['action']['action_type'] raises TypeError.
RecordedEntry(i) == [step |-> i, action |-> [name |-> "tap"]]

\* The histories of the calls: one per length, steps numbered from 1, of
\* planned entries throughout or with a recorded entry in the first or in
\* the last place.
Histories ==
    { [i \in 1..n |-> PlannedEntry(i)] : n \in 0..MaxHistory }
    \cup UNION { { [i \in 1..n |-> IF i = k THEN RecordedEntry(i)
                                   ELSE PlannedEntry(i)] : k \in {1, n} } :
                   n \in 1..MaxHistory }

\* planner.py 74-77: the comprehension reads a['action']['action_type'] of
\* every recent entry and raises on an action that has none.
SummaryRaises(action_history) ==
    LET recent_actions == RecentActions(action_history) IN
    \E i \in 1..Len(recent_actions) :
        "action_type" \notin DOMAIN recent_actions[i].action

PlannerOff ==
    /\ p_pc = "off" /\ p_max_retries = 0 /\ p_attempt = 0
    /\ p_outcome = NoOutcome /\ p_classes = <<>> /\ p_action = NoAction
    /\ p_sleeps = <<>> /\ p_history = <<>> /\ p_frame = None
    /\ p_summary = <<>>

\* planner.py 73-110: the prompt of the call is built before the retry loop;
\* the same prompt goes into the request of every attempt.  Nothing before
\* the loop is inside a try block: the summary raises on a recorded entry
\* among the recent ones (75), and _encode_image_to_base64 (105) raises
\* AttributeError on a screenshot that is None, after the summary was built.
PlanSummarize ==
    /\ p_pc = "start"
    /\ p_summary' = IF SummaryRaises(p_history) THEN p_summary
                    ELSE HistorySummary(p_history)
    /\ p_pc' = IF SummaryRaises(p_history) \/ p_frame = None
               THEN "raised" ELSE "loop"
    /\ UNCHANGED <<p_max_retries, p_attempt, p_outcome, p_classes, p_action,
                   p_sleeps, p_history, p_frame, orchVars, supVars, provVars,
                   execVars, contVars, rateVars, repVars>>

\* planner.py 112: one more iteration of `for attempt in range(max_retries)`.
PlanAttempt ==
    /\ p_pc = "loop" /\ p_attempt < p_max_retries
    /\ \E o \in PlannerOutcomes :
          LET r == PlannerAttempt(o, p_attempt, p_max_retries) IN
          /\ p_outcome' = o
          /\ p_classes' = Append(p_classes, r.class)
          /\ p_pc' = IF r.done THEN "returned" ELSE "loop"
          /\ p_action' = IF r.done THEN r.action ELSE p_action
          /\ p_sleeps' = IF r.done THEN p_sleeps ELSE Append(p_sleeps, r.sleep)
          /\ Limited("planner", IF r.done THEN 0 ELSE r.sleep)
    /\ p_attempt' = p_attempt + 1
    /\ UNCHANGED <<p_max_retries, p_history, p_frame, p_summary, orchVars,
                   supVars, provVars, execVars, contVars, repVars>>

\* planner.py 184-188: the loop ran out without a return.
PlanExhausted ==
    /\ p_pc = "loop" /\ ~(p_attempt < p_max_retries)
    /\ p_pc' = "returned"
    /\ p_action' = RetriesFallback
    /\ UNCHANGED <<p_max_retries, p_attempt, p_outcome, p_classes, p_sleeps,
                   p_history, p_frame, p_summary, orchVars, supVars, provVars,
                   execVars, contVars, rateVars, repVars>>

(***************************************************************************)
(* SupervisorAgent.evaluate_test_result                                    *)
(***************************************************************************)
\* supervisor.py 137: max_retries=3
SupervisorMaxRetries == 3

NoEvaluation ==
    [result |-> None, reason |-> None, bug_found |-> FALSE, details |-> None]

\* `d[key] = value`
SetKey(d, key, value) ==
    [k \in DOMAIN d \cup {key} |-> IF k = key THEN value ELSE d[k]]

\* supervisor.py 171-180: strip the response and cut the code fences.
SupervisorClean(text) ==
    LET t0 == Strip(text)
        t1 == IF StartsWith(t0, <<Fence, "json">>) THEN DropFirst(t0, 2) ELSE t0
        t2 == IF StartsWith(t1, <<Fence>>) THEN DropFirst(t1, 1) ELSE t1
        t3 == IF EndsWith(t2, <<Fence>>) THEN DropLast(t2, 1) ELSE t2
    IN  Strip(t3)

\* Mutant: a result is only filled in when missing, never replaced.
EvaluationDefaults_KeepsResult(e) ==
    LET e1 == WithDefault(e, "result", "FAIL")
        e2 == WithDefault(e1, "reason", "No reason")
        e3 == WithDefault(e2, "bug_found", FALSE)
    IN  WithDefault(e3, "details", "No details")

\* supervisor.py 182-189: the defaults put into a parsed evaluation.
EvaluationDefaults(e) ==
    LET e1 == IF "result" \notin DOMAIN e \/ e.result \notin {"PASS", "FAIL"}
              THEN SetKey(e, "result", "FAIL") ELSE e
        e2 == WithDefault(e1, "reason", "No reason")
        e3 == WithDefault(e2, "bug_found", FALSE)
    IN  WithDefault(e3, "details", "No details")

\* supervisor.py 167-191: the try block of one attempt; ok: it returns
\* `evaluation`, else it ends with an exception.
SupervisorTry(o) ==
    IF o.kind = "raise"
    THEN [ok |-> FALSE, evaluation |-> NoEvaluation]
    ELSE LET j == JsonLoads(SupervisorClean(o.text)) IN
         IF ~j.ok \/ j.value.type # "object"
         THEN [ok |-> FALSE, evaluation |-> NoEvaluation]
         ELSE [ok |-> TRUE, evaluation |-> EvaluationDefaults(j.value.obj)]

\* supervisor.py 200-205
EvaluationFailed ==
    [result |-> "FAIL", reason |-> "Evaluation failed", bug_found |-> FALSE,
     details |-> "Error: str(e)"]

\* supervisor.py 207-212
EvaluationRetriesFailed ==
    [result |-> "FAIL", reason |-> "Failed after retries", bug_found |-> FALSE,
     details |-> "Evaluation failed"]

\* supervisor.py 166-205: one iteration of the retry loop.
SupervisorAttempt(o, attempt, max_retries) ==
    LET r == SupervisorTry(o) IN
    IF r.ok
    THEN [done |-> TRUE, evaluation |-> r.evaluation, sleep |-> 0]
    ELSE [done |-> ~(attempt < max_retries - 1),
          evaluation |-> EvaluationFailed, sleep |-> 2]

SupervisorOutcomes == OutcomesOver(SupervisorDocs)

SupervisorOff ==
    /\ s_pc = "off" /\ s_frame = None /\ s_max_retries = 0 /\ s_attempt = 0
    /\ s_outcome = NoOutcome /\ s_verdict = NoEvaluation /\ s_sleeps = <<>>

\* supervisor.py 162: _encode_image_to_base64(final_screenshot) reads
\* pil_image.size (line 48); without a frame that is an AttributeError, raised
\* outside every try block.
EvalEncode ==
    /\ s_pc = "start"
    /\ s_pc' = IF s_frame = None THEN "raised" ELSE "loop"
    /\ UNCHANGED <<s_frame, s_max_retries, s_attempt, s_outcome, s_verdict,
                   s_sleeps, orchVars, planVars, provVars, execVars, contVars,
                   rateVars, repVars>>

\* supervisor.py 166: one more iteration of `for attempt in range(max_retries)`.
EvalAttempt ==
    /\ s_pc = "loop" /\ s_attempt < s_max_retries
    /\ \E o \in SupervisorOutcomes :
          LET r == SupervisorAttempt(o, s_attempt, s_max_retries) IN
          /\ s_outcome' = o
          /\ s_pc' = IF r.done THEN "returned" ELSE "loop"
          /\ s_verdict' = IF r.done THEN r.evaluation ELSE s_verdict
          /\ s_sleeps' = IF r.done THEN s_sleeps ELSE Append(s_sleeps, r.sleep)
          /\ Limited("supervisor", IF r.done THEN 0 ELSE r.sleep)
    /\ s_attempt' = s_attempt + 1
    /\ UNCHANGED <<s_frame, s_max_retries, orchVars, planVars, provVars,
                   execVars, contVars, repVars>>

\* supervisor.py 207-212: the loop ran out without a return.
EvalExhausted ==
    /\ s_pc = "loop" /\ ~(s_attempt < s_max_retries)
    /\ s_pc' = "returned"
    /\ s_verdict' = EvaluationRetriesFailed
    /\ UNCHANGED <<s_frame, s_max_retries, s_attempt, s_outcome, s_sleeps,
                   orchVars, planVars, provVars, execVars, contVars,
                   rateVars, repVars>>

(***************************************************************************)
(* SupervisorAgent.should_continue                                         *)
(***************************************************************************)
\* supervisor.py 117, 131: the default is to go on below 12 actions
ContinueLimit == 12

\* The longest streak of blocked steps before a call.
MaxBlocked == 3

NoDecision == [continue |-> FALSE, reasoning |-> None]

ContinueDocs == {"GO_ON", "GO_ON_BARE", "STOP", "NO_CONTINUE", "ARRAY",
                 "NUMBER"}

\* The history lengths of the calls: none, a few, just below, at and above
\* the limit.
ActionCounts == {0, 3, ContinueLimit - 1, ContinueLimit, ContinueLimit + 1}

\* supervisor.py 105-114: strip the response and cut the code fences.
ContinueClean(text) ==
    LET t0 == Strip(text)
        t1 == IF StartsWith(t0, <<Fence, "json">>) THEN DropFirst(t0, 2) ELSE t0
        t2 == IF StartsWith(t1, <<Fence>>) THEN DropFirst(t1, 1) ELSE t1
        t3 == IF EndsWith(t2, <<Fence>>) THEN DropLast(t2, 1) ELSE t2
    IN  Strip(t3)

\* supervisor.py 116-119: the defaults put into a parsed decision.
DecisionDefaults(d, actions) ==
    WithDefault(WithDefault(d, "continue", actions < ContinueLimit),
                "reasoning", "No reasoning")

\* supervisor.py 101-121: the try block of one attempt; ok: it returns
\* `decision`, else it ends with an exception.
ContinueTry(o, actions) ==
    IF o.kind = "raise"
    THEN [ok |-> FALSE, decision |-> NoDecision]
    ELSE LET j == JsonLoads(ContinueClean(o.text)) IN
         IF ~j.ok \/ j.value.type # "object"
         THEN [ok |-> FALSE, decision |-> NoDecision]
         ELSE [ok |-> TRUE, decision |-> DecisionDefaults(j.value.obj, actions)]

DefaultDecision_AlwaysContinue(actions) ==
    [continue |-> TRUE, reasoning |-> "Default due to error"]

\* supervisor.py 130-133
DefaultDecision(actions) ==
    [continue |-> actions < ContinueLimit, reasoning |-> "Default due to error"]

\* supervisor.py 135
RetriesDecision == [continue |-> FALSE, reasoning |-> "Failed after retries"]

\* supervisor.py 100-133: one iteration of the retry loop.
ContinueAttempt(o, attempt, max_retries, actions) ==
    LET r == ContinueTry(o, actions) IN
    IF r.ok
    THEN [done |-> TRUE, decision |-> r.decision, sleep |-> 0]
    ELSE [done |-> ~(attempt < max_retries - 1),
          decision |-> DefaultDecision(actions), sleep |-> 2]

ContinueOutcomes == OutcomesOver(ContinueDocs)

ContinueOff ==
    /\ c_pc = "off" /\ c_frame = None /\ c_actions = 0 /\ c_max_retries = 0
    /\ c_attempt = 0 /\ c_outcome = NoOutcome /\ c_decision = NoDecision
    /\ c_sleeps = <<>> /\ c_blocked = 0

\* supervisor.py 95: _encode_image_to_base64(current_screenshot) reads
\* pil_image.size (line 48); without a frame that is an AttributeError, raised
\* outside every try block.
ContinueEncode ==
    /\ c_pc = "start"
    /\ c_pc' = IF c_frame = None THEN "raised" ELSE "loop"
    /\ UNCHANGED <<c_frame, c_actions, c_max_retries, c_attempt, c_outcome,
                   c_decision, c_sleeps, c_blocked, orchVars, planVars, supVars, provVars,
                   execVars, rateVars, repVars>>

\* supervisor.py 100: one more iteration of `for attempt in range(max_retries)`.
ContinueStep ==
    /\ c_pc = "loop" /\ c_attempt < c_max_retries
    /\ \E o \in ContinueOutcomes :
          LET r == ContinueAttempt(o, c_attempt, c_max_retries, c_actions) IN
          /\ c_outcome' = o
          /\ c_pc' = IF r.done THEN "returned" ELSE "loop"
          /\ c_decision' = IF r.done THEN r.decision ELSE c_decision
          /\ c_sleeps' = IF r.done THEN c_sleeps ELSE Append(c_sleeps, r.sleep)
          /\ Limited("supervisor", IF r.done THEN 0 ELSE r.sleep)
    /\ c_attempt' = c_attempt + 1
    /\ UNCHANGED <<c_frame, c_actions, c_max_retries, c_blocked, orchVars,
                   planVars, supVars, provVars, execVars, repVars>>

\* supervisor.py 135: the loop ran out without a return.
ContinueExhausted ==
    /\ c_pc = "loop" /\ ~(c_attempt < c_max_retries)
    /\ c_pc' = "returned"
    /\ c_decision' = RetriesDecision
    /\ UNCHANGED <<c_frame, c_actions, c_max_retries, c_attempt, c_outcome,
                   c_sleeps, c_blocked, orchVars, planVars, supVars, provVars,
                   execVars, rateVars, repVars>>

(***************************************************************************)
(* AIProvider.generate_response                                            *)
(***************************************************************************)
\* config.py 59: MAX_RETRIES = 3
MAX_RETRIES == 3

\* ai_provider.py 37: self.min_delay = 2.0
MinDelay == 2

\* config.py 86: RATE_LIMIT_ENABLED = True
RATE_LIMIT_ENABLED == TRUE

\* ai_provider.py 41-46 _rate_limit: the ticks it sleeps when called at
\* time `now` with self.last_call_time = last.
ProviderRateLimit(now, last) ==
    IF RATE_LIMIT_ENABLED /\ now - last < Ticks(MinDelay)
    THEN Ticks(MinDelay) - (now - last) ELSE 0

\* config.py 60: RETRY_DELAY = 2
RETRY_DELAY == 2

\* ai_provider.py 152: the wait used when a 429 carries no Retry-After
DefaultRetryAfter == 5

\* The tokens that hold an opening / a closing brace.
ObjectDocs == { d \in DocTokens : JsonDocs[d].type = "object" }

OpensBrace(tok) == tok \in ObjectDocs \cup {Broken}

ClosesBrace(tok) == tok \in ObjectDocs

\* `"```json" in text`, and the index of the first occurrence (0: none)
FenceJsonAt(t) ==
    LET hits == { i \in 1..(Len(t) - 1) : t[i] = Fence /\ t[i + 1] = "json" }
    IN  IF hits = {} THEN 0 ELSE CHOOSE i \in hits : \A j \in hits : i <= j

\* The indices of the fences of a text, and str.split on the fence.
FenceIndices(t) == { i \in 1..Len(t) : t[i] = Fence }

\* The part of t before its first fence (all of t when it has none).
UpToFence(t) ==
    LET f == FenceIndices(t) IN
    IF f = {} THEN t
    ELSE SubSeq(t, 1, (CHOOSE i \in f : \A j \in f : i <= j) - 1)

\* ai_provider.py 222-230: the text inside the first code block.
CodeBlock(t) ==
    LET fj == FenceJsonAt(t)
        f  == FenceIndices(t)
    IN  IF fj # 0
        THEN Strip(UpToFence(DropFirst(t, fj + 1)))
        ELSE IF Cardinality(f) >= 2
        THEN LET first == CHOOSE i \in f : \A j \in f : i <= j
             IN  Strip(UpToFence(DropFirst(t, first)))
        ELSE t

\* The value of a parsed document, tagged with its Python type.
Parsed(doc) ==
    [type  |-> IF doc.type = "object" THEN "dict"
               ELSE IF doc.type = "array" THEN "list" ELSE "int",
     value |-> doc.obj]

\* ai_provider.py 212-251 _parse_json_response
ParseJsonResponse(text) ==
    LET t      == Strip(CodeBlock(text))
        opens  == { i \in 1..Len(t) : OpensBrace(t[i]) }
        closes == { i \in 1..Len(t) : ClosesBrace(t[i]) }
        start  == CHOOSE i \in opens : \A j \in opens : i <= j
        end    == CHOOSE i \in closes : \A j \in closes : i >= j
        inner  == IF opens # {} /\ closes # {}
                  THEN JsonLoads(SubSeq(t, start, end))
                  ELSE [ok |-> FALSE, value |-> JsonDocs["ARRAY"]]
        whole  == JsonLoads(t)
    IN  IF inner.ok /\ SubSeq(t, start, end) = <<t[start]>>
        THEN Parsed(inner.value)
        ELSE IF whole.ok THEN Parsed(whole.value)
        ELSE [type |-> "str", value |-> t]

\* Mutant: the fallback ends the test instead of waiting.
FallbackResponse_Complete(reason) ==
    [type  |-> "dict",
     value |-> [action_type |-> "complete", parameters |-> [seconds |-> 2],
                reasoning |-> <<"API error: ", reason>>]]

\* ai_provider.py 253-259 _fallback_response
FallbackResponse(reason) ==
    [type  |-> "dict",
     value |-> [action_type |-> "wait", parameters |-> [seconds |-> 2],
                reasoning |-> <<"API error: ", reason>>]]

NoResponse == [type |-> "none", value |-> EmptyMap]

ProviderDocs == {"TAP_FULL", "ARRAY", "NUMBER"}

\* The Retry-After headers of a 429: none, a number of seconds, an HTTP date.
RetryAfterHeaders == {None, "1", "8", "date"}

\* What one HTTP request gives: a status with a body, or an exception of
\* requests.post.
HttpOutcomes ==
    { [kind |-> "429", retry_after |-> h, text |-> <<>>] : h \in RetryAfterHeaders }
    \cup { [kind |-> k, retry_after |-> None, text |-> <<>>] :
             k \in {"500", "no_choices", "bad_body", "null_content", "Timeout",
                    "ConnectionError", "Exception"} }
    \cup { [kind |-> "200", retry_after |-> None, text |-> t] :
             t \in UNION { Wrappings(d) : d \in ProviderDocs \cup {Broken} } }

NoHttp == [kind |-> "none", retry_after |-> None, text |-> <<>>]

\* ai_provider.py 152: int(response.headers.get('Retry-After', 5)); -1 stands
\* for the ValueError of a header that is no integer.
RetryAfterSeconds(h) ==
    IF h = None THEN DefaultRetryAfter
    ELSE IF h = "1" THEN 1
    ELSE IF h = "8" THEN 8
    ELSE -1

\* ai_provider.py 140-148: requests.post returned a response (whatever its
\* status or body), so that lines 147-148 ran; an exception of requests.post
\* skips them.
Responded(o) == o.kind \notin {"Timeout", "ConnectionError", "Exception"}

\* ai_provider.py 102-207: one iteration of the retry loop.  done: the call
\* returns `result`; else it sleeps `sleep` seconds and goes on with the next
\* value of the range.  posted: requests.post was reached.
GenerateAttempt(o, attempt, max_retries) ==
    LET last == ~(attempt < max_retries - 1)
        retry(reason, wait) ==
            [done |-> last, result |-> FallbackResponse(reason),
             sleep |-> wait, posted |-> TRUE]
    IN
    IF o.kind = "429"
    THEN IF RetryAfterSeconds(o.retry_after) >= 0
         THEN [done |-> FALSE, result |-> NoResponse,
               sleep |-> RetryAfterSeconds(o.retry_after), posted |-> TRUE]
         ELSE retry("Unexpected error: invalid literal for int()",
                    RETRY_DELAY * (attempt + 1))
    ELSE IF o.kind = "500"
    THEN retry("API Error 500", RETRY_DELAY * (attempt + 1))
    ELSE IF o.kind = "no_choices"
    THEN retry("Invalid response format", RETRY_DELAY)
    ELSE IF o.kind = "Timeout"
    THEN retry("Request timeout", RETRY_DELAY * (attempt + 1))
    ELSE IF o.kind = "ConnectionError"
    THEN retry("Connection error", RETRY_DELAY * (attempt + 1))
    ELSE IF o.kind \in {"bad_body", "null_content", "Exception"}
    THEN retry("Unexpected error: str(e)", RETRY_DELAY * (attempt + 1))
    ELSE [done |-> TRUE, result |-> ParseJsonResponse(o.text), sleep |-> 0,
          posted |-> TRUE]

ProviderOff ==
    /\ g_pc = "off" /\ g_max_retries = 0 /\ g_attempt = 0
    /\ g_outcome = NoHttp /\ g_result = NoResponse /\ g_sleeps = <<>>
    /\ g_requests = 0 /\ g_kinds = <<>> /\ g_call_count = 0
    /\ g_last = 0 /\ g_waits = <<>>

\* ai_provider.py 102: one more iteration of `for attempt in range(max_retries)`:
\* _rate_limit (104) sleeps w ticks, requests.post is called, a response
\* sets last_call_time (147), and a failed attempt ends with its sleep.
GenerateStep ==
    /\ g_pc = "loop" /\ g_attempt < g_max_retries
    /\ \E o \in HttpOutcomes :
          LET r == GenerateAttempt(o, g_attempt, g_max_retries)
              w == ProviderRateLimit(r_now, g_last)
          IN
          /\ g_waits' = IF w > 0 THEN Append(g_waits, w) ELSE g_waits
          /\ g_last' = IF Responded(o) THEN r_now + w ELSE g_last
          /\ r_now' = r_now + w + Ticks(IF r.done THEN 0 ELSE r.sleep)
          /\ g_outcome' = o
          /\ g_kinds' = Append(g_kinds, o.kind)
          /\ g_pc' = IF r.done THEN "returned" ELSE "loop"
          /\ g_result' = IF r.done THEN r.result ELSE g_result
          /\ g_sleeps' = IF r.done THEN g_sleeps ELSE Append(g_sleeps, r.sleep)
    /\ g_requests' = g_requests + 1
    /\ g_call_count' = g_call_count + (IF Responded(g_outcome') THEN 1 ELSE 0)
    /\ g_attempt' = g_attempt + 1
    /\ UNCHANGED <<g_max_retries, r_last, r_log, r_waits, orchVars, planVars,
                   supVars, execVars, contVars, repVars>>

\* ai_provider.py 209-210: the range is exhausted.
GenerateExhausted ==
    /\ g_pc = "loop" /\ ~(g_attempt < g_max_retries)
    /\ g_pc' = "returned"
    /\ g_result' = FallbackResponse("Max retries exceeded")
    /\ UNCHANGED <<g_max_retries, g_attempt, g_outcome, g_sleeps, g_requests,
                   g_kinds, g_call_count, g_last, g_waits, orchVars, planVars,
                   supVars, execVars, contVars, rateVars, repVars>>

(***************************************************************************)
(* ADBInterface (adb.py): the device layer under the executor.             *)
(***************************************************************************)
\* config.py 72: DEFAULT_SCREEN_SIZE = (1080, 2400)
DEFAULT_SCREEN_SIZE == <<1080, 2400>>

\* Stands for a parameter value that is no number (a string): arithmetic and
\* time.sleep raise TypeError on it.
NotANumber == -999999

\* An adb command that reached the device.
Command(name, nums, text) == [cmd |-> name, nums |-> nums, text |-> text]

\* How the device answers during one call: the answer to `wm size`, the
\* outcome of an input command (return code 0, another return code, no
\* result after a timeout, or an exception of the device layer), and what a
\* screen capture gives.
DeviceAnswers ==
    [size : {[ok |-> TRUE, dims |-> <<720, 1280>>],
             [ok |-> TRUE, dims |-> <<1080, 2400>>],
             [ok |-> FALSE, dims |-> <<0, 0>>]},
     run  : {"ok", "error", "none", "raise"},
     shot : {"frame", None}]

\* vision.py 90: analyze_screen(image, prompt, max_retries=3)
VisionMaxRetries == 3

\* What the back-end of the vision tools does at one attempt (vision.py
\* 108-181): it answers with an analysis, answers that it cannot see the
\* image, raises a rate limit error, or raises another error.
VisionKinds == {"ok", "blind", "rate", "error"}

\* The frame is an image that cannot be encoded (vision.py 101-104).
Unencodable == <<"unencodable">>

\* The vision tools were not asked.
NoVision == <<>>

\* What the vision tools meet during one call of analyze_screen: a frame
\* that cannot be encoded, or the outcomes of the attempts in order, up to
\* the first analysis or the last attempt.
VisionAnswers ==
    {Unencodable} \cup
    { v \in UNION { [1..n -> VisionKinds] : n \in 1..VisionMaxRetries } :
        /\ \A i \in 1..(Len(v) - 1) : v[i] # "ok"
        /\ Len(v) < VisionMaxRetries => v[Len(v)] = "ok" }

NoDevice == [size |-> [ok |-> FALSE, dims |-> <<0, 0>>], run |-> "none",
             shot |-> None, vision |-> NoVision]

\* adb.py 20: _screen_size_cache = None, no size cached
NoSize == <<>>

\* adb.py 80-104 get_screen_size
GetScreenSize(cache, dev) ==
    IF cache # NoSize
    THEN [size |-> cache, cache |-> cache, commands |-> <<>>]
    ELSE IF dev.size.ok
    THEN [size |-> dev.size.dims, cache |-> dev.size.dims,
          commands |-> <<Command("wm size", <<>>, "")>>]
    ELSE [size |-> DEFAULT_SCREEN_SIZE, cache |-> cache,
          commands |-> <<Command("wm size", <<>>, "")>>]

\* adb.py 50-78, 172-174: an input command is run; _run gives None after a
\* timeout and after any exception of the device layer (lines 73-78), so
\* the call never raises and gives True only for return code 0.
AdbInput(command, dev) ==
    [value |-> dev.run = "ok", commands |-> <<command>>]

AdbRejected == [value |-> FALSE, commands |-> <<>>]

\* adb.py 158-174 tap
AdbTap(x, y, dev) ==
    IF x < 0 \/ y < 0 THEN AdbRejected
    ELSE AdbInput(Command("tap", <<x, y>>, ""), dev)

\* adb.py 176-201 swipe
AdbSwipe(sx, sy, ex, ey, duration, dev) ==
    IF \E c \in {sx, sy, ex, ey} : c < 0 THEN AdbRejected
    ELSE AdbInput(Command("swipe", <<sx, sy, ex, ey, duration>>, ""), dev)

\* adb.py 216: spaces become %s (quotes are removed) on the texts of the model
FormatText(text) == IF text = "hello world" THEN "hello%sworld" ELSE text

\* adb.py 203-221 type_text
AdbTypeText(text, dev) ==
    IF text = "" THEN AdbRejected
    ELSE AdbInput(Command("text", <<>>, FormatText(text)), dev)

\* adb.py 223-246 press_key, called with a key code
AdbPressKey(keycode, dev) == AdbInput(Command("keyevent", <<keycode>>, ""), dev)

\* adb.py 106-138 get_screenshot
AdbScreenshot(dev) ==
    [image |-> dev.shot, commands |-> <<Command("screencap", <<>>, "")>>]

(***************************************************************************)
(* ExecutorAgent.execute_action                                            *)
(***************************************************************************)
\* Stands for a parameters value that is no dict (a list, null): params.get
\* raises AttributeError on it.
NotADict == [not_a_dict |-> TRUE]

\* dict.get(key, default)
Get(d, key, default) == IF key \in DOMAIN d THEN d[key] ELSE default

\* The pairs (percent, size), percent in 0..1100 and size one of 720, 1280,
\* 1080 and 2400, whose product in double arithmetic falls just below the
\* exact value, so that int() gives one less in magnitude; the same pairs
\* fall short for the negated percent.
FloatShortfall ==
    { <<35, 720>>, <<70, 720>>, <<115, 720>>, <<140, 720>>, <<205, 720>>,
      <<230, 720>>, <<255, 720>>, <<280, 720>>, <<410, 720>>, <<435, 720>>,
      <<460, 720>>, <<485, 720>>, <<510, 720>>, <<535, 720>>, <<560, 720>>,
      <<820, 720>>, <<845, 720>>, <<870, 720>>, <<895, 720>>, <<920, 720>>,
      <<945, 720>>, <<970, 720>>, <<995, 720>>, <<1020, 720>>, <<1045, 720>>,
      <<1070, 720>>, <<1095, 720>>, <<41, 2400>>, <<57, 2400>>, <<69, 2400>>,
      <<82, 2400>>, <<113, 2400>>, <<114, 2400>>, <<138, 2400>>,
      <<139, 2400>>, <<163, 2400>>, <<164, 2400>>, <<201, 2400>>,
      <<203, 2400>>, <<226, 2400>>, <<228, 2400>>, <<251, 2400>>,
      <<253, 2400>>, <<276, 2400>>, <<278, 2400>>, <<301, 2400>>,
      <<303, 2400>>, <<326, 2400>>, <<328, 2400>>, <<402, 2400>>,
      <<406, 2400>>, <<427, 2400>>, <<431, 2400>>, <<452, 2400>>,
      <<456, 2400>>, <<477, 2400>>, <<481, 2400>>, <<502, 2400>>,
      <<506, 2400>>, <<527, 2400>>, <<531, 2400>>, <<552, 2400>>,
      <<556, 2400>>, <<577, 2400>>, <<581, 2400>>, <<602, 2400>>,
      <<606, 2400>>, <<627, 2400>>, <<631, 2400>>, <<652, 2400>>,
      <<656, 2400>>, <<677, 2400>>, <<681, 2400>>, <<804, 2400>>,
      <<812, 2400>>, <<829, 2400>>, <<837, 2400>>, <<854, 2400>>,
      <<862, 2400>>, <<879, 2400>>, <<887, 2400>>, <<904, 2400>>,
      <<912, 2400>>, <<929, 2400>>, <<937, 2400>>, <<954, 2400>>,
      <<962, 2400>>, <<979, 2400>>, <<987, 2400>>, <<1004, 2400>>,
      <<1012, 2400>>, <<1029, 2400>>, <<1037, 2400>>, <<1054, 2400>>,
      <<1062, 2400>>, <<1079, 2400>>, <<1087, 2400>> }

\* abs()
Magnitude(n) == IF n >= 0 THEN n ELSE -n

\* executor.py 82: int((percent / 100) * size), truncated towards zero
ToPixels(percent, size) ==
    LET m == ((Magnitude(percent) * size) \div 100)
             - (IF <<Magnitude(percent), size>> \in FloatShortfall
                THEN 1 ELSE 0)
    IN IF percent >= 0 THEN m ELSE -m

NoResult == [success |-> FALSE, message |-> None, details |-> EmptyMap]

\* What an _execute_* method ends with: a returned dict or an exception,
\* with the commands sent, the seconds slept and the size cache after it.
Returned(result, commands, slept, cache) ==
    [exc |-> FALSE, result |-> result, commands |-> commands,
     slept |-> slept, cache |-> cache]

Raised(commands, cache) ==
    [exc |-> TRUE, result |-> NoResult, commands |-> commands, slept |-> 0,
     cache |-> cache]

\* executor.py 73-91 _execute_tap
ExecuteTap(params, cache, dev) ==
    IF params = NotADict THEN Raised(<<>>, cache)
    ELSE
    LET x_percent == Get(params, "x_percent", 50)
        y_percent == Get(params, "y_percent", 50)
        ss        == GetScreenSize(cache, dev)
    IN  IF x_percent = NotANumber \/ y_percent = NotANumber
        THEN Raised(ss.commands, ss.cache)
        ELSE LET x == ToPixels(x_percent, ss.size[1])
                 y == ToPixels(y_percent, ss.size[2])
                 t == AdbTap(x, y, dev)
             IN  Returned([success |-> t.value, message |-> "Tapped at",
                           details |-> [x |-> x, y |-> y,
                                        x_percent |-> x_percent,
                                        y_percent |-> y_percent]],
                          ss.commands \o t.commands, 0, ss.cache)

\* Mutant: the text is sent unchecked and the result claims success.
ExecuteType_IgnoresDevice(params, cache, dev) ==
    IF params = NotADict THEN Raised(<<>>, cache)
    ELSE
    LET text == Get(params, "text", "")
        t    == AdbInput(Command("text", <<>>, FormatText(text)), dev)
    IN  Returned([success |-> TRUE, message |-> "Typed text",
                  details |-> [text |-> text]], t.commands, 0, cache)

\* executor.py 93-110 _execute_type
ExecuteType(params, cache, dev) ==
    IF params = NotADict THEN Raised(<<>>, cache)
    ELSE
    LET text == Get(params, "text", "") IN
    IF text = ""
    THEN Returned([success |-> FALSE, message |-> "No text provided to type",
                   details |-> EmptyMap], <<>>, 0, cache)
    ELSE LET t == AdbTypeText(text, dev) IN
         Returned([success |-> t.value, message |-> "Typed text",
                   details |-> [text |-> text]], t.commands, 0, cache)

\* executor.py 116-121 key_map
ExecutorKeyMap == [back |-> 4, home |-> 3, enter |-> 66, backspace |-> 67]

\* str.lower() on the key names of the model
Lower(key) ==
    IF key = "BACK" THEN "back" ELSE IF key = "Enter" THEN "enter" ELSE key

\* executor.py 112-136 _execute_press_key
ExecutePressKey(params, cache, dev) ==
    IF params = NotADict THEN Raised(<<>>, cache)
    ELSE
    LET key == Lower(Get(params, "key", "")) IN
    IF key \notin DOMAIN ExecutorKeyMap
    THEN Returned([success |-> FALSE, message |-> "Unknown key",
                   details |-> EmptyMap], <<>>, 0, cache)
    ELSE LET t == AdbPressKey(ExecutorKeyMap[key], dev) IN
         Returned([success |-> t.value, message |-> "Pressed key",
                   details |-> [key |-> key]], t.commands, 0, cache)

\* executor.py 138-162 _execute_swipe
ExecuteSwipe(params, cache, dev) ==
    IF params = NotADict THEN Raised(<<>>, cache)
    ELSE
    LET start_x_percent == Get(params, "start_x_percent", 50)
        start_y_percent == Get(params, "start_y_percent", 80)
        end_x_percent   == Get(params, "end_x_percent", 50)
        end_y_percent   == Get(params, "end_y_percent", 20)
        duration        == Get(params, "duration", 300)
        ss              == GetScreenSize(cache, dev)
    IN  IF NotANumber \in {start_x_percent, start_y_percent, end_x_percent,
                           end_y_percent}
        THEN Raised(ss.commands, ss.cache)
        ELSE LET start_x == ToPixels(start_x_percent, ss.size[1])
                 start_y == ToPixels(start_y_percent, ss.size[2])
                 end_x   == ToPixels(end_x_percent, ss.size[1])
                 end_y   == ToPixels(end_y_percent, ss.size[2])
                 t == AdbSwipe(start_x, start_y, end_x, end_y, duration, dev)
             IN  Returned([success |-> t.value, message |-> "Swiped from",
                           details |-> [start |-> <<start_x, start_y>>,
                                        end   |-> <<end_x, end_y>>]],
                          ss.commands \o t.commands, 0, ss.cache)

\* executor.py 164-173 _execute_wait; time.sleep raises TypeError for a value
\* that is no number and ValueError for a negative one.
ExecuteWait(params, cache, dev) ==
    IF params = NotADict THEN Raised(<<>>, cache)
    ELSE
    LET seconds == Get(params, "seconds", 2) IN
    IF seconds = NotANumber \/ seconds < 0 THEN Raised(<<>>, cache)
    ELSE Returned([success |-> TRUE, message |-> "Waited",
                   details |-> [seconds |-> seconds]], <<>>, seconds, cache)

\* vision.py 153, 166-169, 178: the seconds of time.sleep after a failed
\* attempt that is not the last.
VisionPause(kind, attempt) ==
    IF kind = "blind" THEN 2
    ELSE IF kind = "rate" THEN 10 * Pow2(attempt)
    ELSE 3

\* vision.py 156, 172, 181: what the last attempt returns when it fails.
VisionError(kind) ==
    IF kind = "blind" THEN "Error: Model unable to process image"
    ELSE IF kind = "rate" THEN "Error: Rate limit exceeded after retries"
    ELSE "Error: str(e)"

RECURSIVE VisionAttempts(_, _, _, _)
\* vision.py 106-181: the loop `for attempt in range(max_retries)` from the
\* iteration `attempt` on, entered at time `now` with last_call_time = last.
\* Every iteration waits for the limiter and calls the back-end; an analysis
\* is returned at once, a failure sleeps and goes on, and the failure of
\* the last iteration is returned as an error text.  Gives the result, the
\* times of the limiter calls, the waits of the limiter and the time and
\* last_call_time at the return.
VisionAttempts(answers, attempt, now, last) ==
    LET t == WaitForRateLimit(now, last)
        kind == answers[attempt + 1]
        wait == IF t > now THEN <<t - now>> ELSE <<>>
    IN  IF kind = "ok"
        THEN [result |-> "analysis", calls |-> <<t>>, waits |-> wait,
              now |-> t, last |-> t]
        ELSE IF ~(attempt < VisionMaxRetries - 1)
        THEN [result |-> VisionError(kind), calls |-> <<t>>, waits |-> wait,
              now |-> t, last |-> t]
        ELSE LET rest == VisionAttempts(answers, attempt + 1,
                                        t + Ticks(VisionPause(kind, attempt)), t)
             IN  [result |-> rest.result, calls |-> <<t>> \o rest.calls,
                  waits |-> wait \o rest.waits, now |-> rest.now,
                  last |-> rest.last]

\* vision.py 90-181: analyze_screen answers with an error text when it gets
\* no image or cannot encode it, else with what the attempts give.
VisionResult(image, answers) ==
    IF image = None THEN "Error: No image provided"
    ELSE IF answers = Unencodable THEN "Error encoding image: str(e)"
    ELSE VisionAttempts(answers, 0, 0, 0).result

\* executor.py 175-204 _execute_verify
ExecuteVerify(params, cache, dev) ==
    IF params = NotADict THEN Raised(<<>>, cache)
    ELSE
    LET verification_type == Get(params, "verification_type", None)
        shot == AdbScreenshot(dev)
    IN  IF verification_type \in {"text", "element", "color"}
        THEN Returned([success |-> TRUE, message |-> "Verification completed",
                       details |-> [verification_type |-> verification_type,
                                    result |-> VisionResult(shot.image,
                                                           dev.vision)]],
                      shot.commands, 0, cache)
        ELSE Returned([success |-> FALSE,
                       message |-> "Unknown verification type",
                       details |-> EmptyMap], shot.commands, 0, cache)

\* Mutant: complete sends the home key to the device.
CompleteResult_PressesHome(cache) ==
    Returned([success |-> TRUE,
              message |-> "Test execution complete, ready for evaluation",
              details |-> EmptyMap],
             <<Command("keyevent", <<3>>, "")>>, 0, cache)

\* executor.py 52-57: the branch of complete.
CompleteResult(cache) ==
    Returned([success |-> TRUE,
              message |-> "Test execution complete, ready for evaluation",
              details |-> EmptyMap], <<>>, 0, cache)

\* executor.py 33-64: the dispatch on action_type inside the try block.
Dispatch(action, cache, dev) ==
    LET action_type == action.action_type
        parameters  == action.parameters
    IN  IF action_type = "tap" THEN ExecuteTap(parameters, cache, dev)
        ELSE IF action_type = "type" THEN ExecuteType(parameters, cache, dev)
        ELSE IF action_type = "press_key"
        THEN ExecutePressKey(parameters, cache, dev)
        ELSE IF action_type = "swipe" THEN ExecuteSwipe(parameters, cache, dev)
        ELSE IF action_type = "wait" THEN ExecuteWait(parameters, cache, dev)
        ELSE IF action_type = "verify"
        THEN ExecuteVerify(parameters, cache, dev)
        ELSE IF action_type = "complete" THEN CompleteResult(cache)
        ELSE Returned([success |-> FALSE, message |-> "Unknown action type",
                       details |-> EmptyMap], <<>>, 0, cache)

\* executor.py 14-71 execute_action: the dispatch, and the except clause that
\* turns every exception into a result.
ExecuteAction(action, cache, dev) ==
    LET r == Dispatch(action, cache, dev) IN
    IF r.exc
    THEN Returned([success |-> FALSE, message |-> "Execution error: str(e)",
                   details |-> [error |-> "str(e)"]],
                  r.commands, r.slept, r.cache)
    ELSE r

\* The actions handed to execute_action: the six kinds with parameters that
\* are complete, defaulted, out of range or of a wrong type, the kind verify
\* of the dispatch, an unknown kind and a missing action_type.
ExecActions ==
    { [action_type |-> "tap", parameters |-> p] :
        p \in { EmptyMap, NotADict, [x |-> 500, y |-> 300],
                [x_percent |-> 50, y_percent |-> 30],
                [x_percent |-> 41, y_percent |-> 41],
                [x_percent |-> 100, y_percent |-> 100],
                [x_percent |-> 150, y_percent |-> 30],
                [x_percent |-> 1000, y_percent |-> 1000],
                [x_percent |-> 1001, y_percent |-> 30],
                [x_percent |-> -10, y_percent |-> 30],
                [x_percent |-> -35, y_percent |-> 70],
                [x_percent |-> NotANumber, y_percent |-> 30] } }
    \cup { [action_type |-> "type", parameters |-> p] :
        p \in { EmptyMap, [text |-> ""], [text |-> "hello"],
                [text |-> "hello world"] } }
    \cup { [action_type |-> "press_key", parameters |-> p] :
        p \in { EmptyMap, [key |-> "enter"], [key |-> "BACK"], [key |-> "home"],
                [key |-> "backspace"], [key |-> "menu"], [key |-> "tab"] } }
    \cup { [action_type |-> "swipe", parameters |-> p] :
        p \in { EmptyMap,
                [start_x_percent |-> 50, start_y_percent |-> 80,
                 end_x_percent |-> 50, end_y_percent |-> 20],
                [start_x_percent |-> 50, start_y_percent |-> 150,
                 end_x_percent |-> 50, end_y_percent |-> -10],
                [start_x_percent |-> NotANumber] } }
    \cup { [action_type |-> "wait", parameters |-> p] :
        p \in { EmptyMap, [seconds |-> 1], [seconds |-> 30], [seconds |-> 120],
                [seconds |-> -1], [seconds |-> NotANumber] } }
    \cup { [action_type |-> "verify", parameters |-> p] :
        p \in { EmptyMap, [verification_type |-> "text", expected |-> "Vault"],
                [verification_type |-> "color", target |-> "icon",
                 expected |-> "red"] } }
    \cup { [action_type |-> k, parameters |-> EmptyMap] :
             k \in {"complete", "scroll", None} }

NoExecAction == [action_type |-> None, parameters |-> EmptyMap]

ExecutorOff ==
    /\ x_pc = "off" /\ x_action = NoExecAction /\ x_device = NoDevice
    /\ x_result = NoResult /\ x_commands = <<>> /\ x_slept = 0
    /\ x_cache = NoSize /\ x_calls = 0 /\ x_queries = 0

\* The `wm size` commands among the commands of a call.
SizeQueries(commands) ==
    Cardinality({ i \in 1..Len(commands) : commands[i].cmd = "wm size" })

\* adb.py 132, 173, 200, 220, 245: the time.sleep that follows a command;
\* get_screenshot sleeps only after a capture that gave an image.
CommandDelay(c, dev) ==
    IF c.cmd \in {"tap", "swipe"} THEN ACTION_DELAY
    ELSE IF c.cmd \in {"text", "keyevent"} THEN ACTION_DELAY \div 2
    ELSE IF c.cmd = "screencap" /\ dev.shot # None THEN SCREENSHOT_DELAY
    ELSE 0

RECURSIVE DeviceDelay(_, _)
\* The ticks the commands of a call spend in time.sleep.
DeviceDelay(commands, dev) ==
    IF commands = <<>> THEN 0
    ELSE CommandDelay(Head(commands), dev) + DeviceDelay(Tail(commands), dev)

\* executor.py 181-195, vision.py 90-110: a verification of a known type
\* hands the captured frame to analyze_screen, which reaches its request
\* loop, and with it _wait_for_rate_limit, when the frame is an image.
AsksVision(action, dev) ==
    /\ action.action_type = "verify"
    /\ action.parameters # NotADict
    /\ Get(action.parameters, "verification_type", None)
          \in {"text", "element", "color"}
    /\ dev.shot # None

\* The answers a call with this action can meet: those of the device, and
\* those of the vision tools when the call asks them.  A verification sends
\* the device nothing but the capture (executor.py 182), so for it only the
\* capture and the vision tools vary.
AnswersFor(action) ==
    IF action.action_type = "verify"
    THEN UNION { { [size |-> NoDevice.size, run |-> NoDevice.run, shot |-> sh,
                    vision |-> v] :
                     v \in IF AsksVision(action, [shot |-> sh])
                           THEN VisionAnswers ELSE {NoVision} } :
                 sh \in {"frame", None} }
    ELSE { [size |-> d.size, run |-> d.run, shot |-> d.shot,
            vision |-> NoVision] : d \in DeviceAnswers }

\* executor.py 14-71: one call of execute_action on the device state dev.
\* The clock moves by the sleeps of the device layer and of _execute_wait;
\* a verification runs the attempts of the vision tools after the capture,
\* each with its limiter call.
ExecutorRuns(action, dev) ==
    LET r == ExecuteAction(action, x_cache, dev)
        after == r_now + DeviceDelay(r.commands, dev) + Ticks(r.slept)
        v == VisionAttempts(dev.vision, 0, after, r_last["vision"])
    IN
    /\ x_device' = dev
    /\ x_result' = r.result
    /\ x_commands' = r.commands
    /\ x_slept' = r.slept
    /\ x_cache' = r.cache
    /\ x_queries' = x_queries + SizeQueries(r.commands)
    /\ IF AsksVision(action, dev) /\ dev.vision # Unencodable
       THEN /\ r_last' = [r_last EXCEPT !["vision"] = v.last]
            /\ r_log' = r_log \o [i \in 1..Len(v.calls) |->
                                    <<"vision", v.calls[i]>>]
            /\ r_waits' = r_waits \o [i \in 1..Len(v.waits) |->
                                        <<"vision", v.waits[i]>>]
            /\ r_now' = v.now
       ELSE r_now' = after /\ UNCHANGED <<r_last, r_log, r_waits>>

\* A caller hands an action to execute_action.
ExecCall ==
    /\ x_pc \in {"idle", "returned"}
    /\ x_calls < MaxCalls
    /\ x_calls' = x_calls + 1
    /\ x_action' \in ExecActions
    /\ x_device' = NoDevice
    /\ x_pc' = "start"
    /\ x_result' = NoResult /\ x_commands' = <<>> /\ x_slept' = 0
    /\ UNCHANGED <<x_cache, x_queries, orchVars, planVars, supVars, provVars,
                   contVars, rateVars, repVars>>

\* executor.py 14-71: the call runs and returns; the device answers the
\* commands of the call as x_device says.
ExecReturn ==
    /\ x_pc = "start"
    /\ \E dev \in AnswersFor(x_action) : ExecutorRuns(x_action, dev)
    /\ x_pc' = "returned"
    /\ UNCHANGED <<x_action, x_calls, orchVars, planVars, supVars, provVars,
                   contVars, repVars>>

(***************************************************************************)
(* Reporting: _print_suite_summary and format_test_report                  *)
(***************************************************************************)
\* Mutant: every failed result is taken for a bug.
CountsAsBug_AnyFail(r) == r.result = "FAIL"

\* main.py 262, 277 `r.get("bug_found", False)` and supervisor.py 217
\* `evaluation.get("bug_found", False)`, taken as a condition.
CountsAsBug(r) == Get(r, "bug_found", FALSE) = TRUE

\* main.py 260-262: sum(1 for r in results if ...)
CountWhere(rs, Test(_)) ==
    Cardinality({ i \in 1..Len(rs) : Test(rs[i]) })

IsPass(r) == r.result = "PASS"
IsFail(r) == r.result = "FAIL"

\* main.py 275-278: the line of one result in the detailed list
SummaryMark(r) ==
    [status |-> IF r.result = "PASS" THEN "passed" ELSE "failed",
     bug    |-> IF CountsAsBug(r) THEN "bug" ELSE "blank",
     result |-> r.result]

\* main.py 254-281: the numbers and lines the summary prints
SuiteSummary(rs) ==
    [total      |-> Len(rs),
     passed     |-> CountWhere(rs, IsPass),
     failed     |-> CountWhere(rs, IsFail),
     bugs_found |-> CountWhere(rs, CountsAsBug),
     lines      |-> [i \in 1..Len(rs) |-> SummaryMark(rs[i])]]

\* supervisor.py 217-230: the RESULT and STATUS lines of the report
FormatTestReport(evaluation) ==
    [result |-> evaluation.result,
     status |-> IF CountsAsBug(evaluation) THEN "BUG FOUND" ELSE "NO BUG"]

NoSummary == [total |-> 0, passed |-> 0, failed |-> 0, bugs_found |-> 0,
              lines |-> <<>>]

NoReport == [result |-> None, status |-> None]

\* The result lists of a suite: up to MaxTests verdicts copied into results
\* (main.py 177-179).
ResultLists ==
    UNION { [1..n -> Verdicts] : n \in 0..MaxTests }

\* The evaluations a report is made of: verdicts, and evaluations without a
\* bug_found key.
ReportedEvaluations == Verdicts \cup [result : {"PASS", "FAIL"}]

ReportOff ==
    /\ rep_pc = "off" /\ rep_results = <<>> /\ rep_summary = NoSummary
    /\ rep_eval = NoVerdict /\ rep_report = NoReport

\* main.py 285-288: the statistic lines call get_stats on the provider and
\* on the three agents; the agents of src have no get_stats.
StatsAvailable(a) ==
    a.planner # "src" /\ a.executor # "src" /\ a.supervisor # "src"

\* main.py 254-289 _print_suite_summary: the summary is printed, then the
\* statistic lines; on a runner that holds an agent of src the first
\* get_stats of such an agent raises AttributeError, after the summary.
PrintSuiteSummary ==
    /\ rep_pc = "start"
    /\ rep_summary' = SuiteSummary(rep_results)
    /\ rep_pc' = IF StatsAvailable(agents) THEN "summary" ELSE "raised"
    /\ UNCHANGED <<rep_results, rep_eval, rep_report, orchVars, planVars,
                   supVars, provVars, execVars, contVars, rateVars>>

\* supervisor.py 214-239 format_test_report, a method the runners do not
\* call: it is called by itself, whatever became of the summary.
FormatReport ==
    /\ rep_pc \in {"summary", "raised"}
    /\ \E e \in ReportedEvaluations :
          /\ rep_eval' = e
          /\ rep_report' = FormatTestReport(e)
    /\ rep_pc' = "formatted"
    /\ UNCHANGED <<rep_results, rep_summary, orchVars, planVars, supVars,
                   provVars, execVars, contVars, rateVars>>

(***************************************************************************)
(* Start of a test case: main.py 75-93, agents/state.py get_initial_state. *)
(***************************************************************************)
StartPc(r) == IF r = "main" THEN "perceive" ELSE "vision"

\* The agents a runner is wired to.  main.py 126, 135-141 and 164 call
\* plan_next_action(goal, ui_context, history), read result["status"] and
\* call evaluate_test; app.py 38-42 and 50-55 call plan_next_action with the
\* keywords goal, ui_context, history and executor.execute and read
\* result["status"].  The classes of src/agents ("src") have a
\* plan_next_action of four other parameters, results without a status key,
\* no execute and no evaluate_test; "fitting" is an agent with the methods
\* and keys the runner uses.  app.py holds no supervisor.
AgentKinds == {"src", "fitting"}

Wirings(r) ==
    [planner : AgentKinds, executor : AgentKinds,
     supervisor : IF r = "main" THEN AgentKinds ELSE {"none"}]

NoAgents == [planner |-> "none", executor |-> "none", supervisor |-> "none"]

Init ==
    /\ runner \in {"main", "graph"}
    /\ agents \in Wirings(runner)
    /\ num_tests \in 1..MaxTests
    /\ test_no = 1
    /\ max_steps \in IF runner = "main" THEN 0..MaxSteps ELSE {GraphStepLimit}
    /\ pc = "construct"
    /\ step_count = 0
    /\ history = <<>>
    /\ last_plan = None
    /\ screenshot = None
    /\ verdict = NoVerdict
    /\ evaluations = 0
    /\ results = <<>>
    /\ PlannerOff
    /\ SupervisorOff
    /\ ProviderOff
    /\ ExecutorOff
    /\ ContinueOff
    /\ RateOff
    /\ ReportOff

\* main.py 51-57, app.py 15-16: PlannerAgent(ai) hands the provider to the
\* parameter calls_per_minute and 60.0 / calls_per_minute raises TypeError
\* (planner.py 26), ExecutorAgent(adb) lacks the argument vision_tools
\* (executor.py 10), SupervisorAgent(ai) fails as the planner does
\* (supervisor.py 28): only fitting agents can be constructed.
Constructs(a) ==
    a.planner # "src" /\ a.executor # "src" /\ a.supervisor # "src"

\* What the constructors of the tools find: adb.py 23-28 raises RuntimeError
\* without adb on the path or without a device, vision.py 26-28 raises
\* ValueError without an API key.
Environments == {"ready", "no adb", "no device", "no api key"}

\* main.py 33-60 TestRunner.__init__, app.py 12-16 (import of the module):
\* the tools and the agents are constructed; in an environment that is not
\* ready, or with an agent of src, the construction raises and no test case
\* starts.
Construct ==
    /\ pc = "construct"
    /\ \E env \in Environments :
          pc' = IF env = "ready" /\ Constructs(agents)
                THEN StartPc(runner) ELSE "raised"
    /\ UNCHANGED <<runner, agents, num_tests, test_no, max_steps, step_count,
                   history, last_plan, screenshot, verdict, evaluations,
                   results>>
    /\ UNCHANGED <<planVars, supVars, provVars, execVars, contVars,
                   rateVars, repVars>>

(***************************************************************************)
(* main.py TestRunner.run_single_test                                      *)
(***************************************************************************)
\* Mutant: the range runs one value too far (range(1, max_steps + 2)).
LoopHasNext_OffByOne(step, limit) == step <= limit

\* main.py 96: `for step in range(1, max_steps + 1)` has a next value.
LoopHasNext(step, limit) == step < limit

\* main.py 96-122: next iteration of the loop: capture and analyse a frame.
MainPerceive ==
    /\ runner = "main" /\ pc = "perceive"
    /\ LoopHasNext(step_count, max_steps)
    /\ step_count' = step_count + 1
    /\ \E shot \in {"frame", None} :
          /\ screenshot' = shot
          /\ pc' = IF shot = None THEN "terminate" ELSE "plan"
    /\ UNCHANGED <<runner, agents, num_tests, test_no, max_steps, history, last_plan,
                   verdict, evaluations, results>>
    /\ UNCHANGED <<planVars, supVars, provVars, execVars, contVars,
                   rateVars, repVars>>

\* main.py 96: the range is exhausted, the loop ends.
MainLoopExhausted ==
    /\ runner = "main" /\ pc = "perceive"
    /\ ~LoopHasNext(step_count, max_steps)
    /\ pc' = "terminate"
    /\ UNCHANGED <<runner, agents, num_tests, test_no, max_steps, step_count, history,
                   last_plan, screenshot, verdict, evaluations, results>>
    /\ UNCHANGED <<planVars, supVars, provVars, execVars, contVars,
                   rateVars, repVars>>

\* Mutant: the loop compares with another word and misses complete.
MainBreaks_WrongWord(action_type) == action_type = "done"

\* main.py 129: `if action["action_type"] == "complete": break`
MainBreaks(action_type) == action_type = "complete"

\* main.py 124-131: plan the next action, leave the loop on complete.
MainPlan ==
    /\ runner = "main" /\ pc = "plan"
    /\ agents.planner = "fitting"
    /\ \E a \in PlannedKinds :
          /\ last_plan' = a
          /\ pc' = IF MainBreaks(a) THEN "terminate" ELSE "execute"
    /\ UNCHANGED <<runner, agents, num_tests, test_no, max_steps, step_count, history,
                   screenshot, verdict, evaluations, results>>
    /\ UNCHANGED <<planVars, supVars, provVars, execVars, contVars,
                   rateVars, repVars>>

\* main.py 147-153: a failed status is only printed; the loop goes on with
\* its next iteration.
AfterExecute(status) == "perceive"

\* main.py 133-153: execute the action and record it.
MainExecute ==
    /\ runner = "main" /\ pc = "execute"
    /\ agents.executor = "fitting"
    /\ \E st \in Statuses :
          /\ history' = Append(history, HistoryEntry(step_count, last_plan, st))
          /\ pc' = AfterExecute(st)
    /\ UNCHANGED <<runner, agents, num_tests, test_no, max_steps, step_count,
                   last_plan, screenshot, verdict, evaluations, results>>
    /\ UNCHANGED <<planVars, supVars, provVars, execVars, contVars,
                   rateVars, repVars>>

\* main.py 173-185: the result record of a test case.
TestResult(v, h) ==
    [result |-> v.result, bug_found |-> v.bug_found, steps_executed |-> Len(h)]

\* main.py 155-195: final screenshot, evaluation, result record.
MainEvaluate ==
    /\ runner = "main" /\ pc = "terminate"
    /\ agents.supervisor = "fitting"
    /\ \E shot \in {"frame", None} : screenshot' = shot
    /\ \E v \in Verdicts :
          /\ verdict' = v
          /\ results' = Append(results, TestResult(v, history))
    /\ evaluations' = evaluations + 1
    /\ pc' = "done"
    /\ UNCHANGED <<runner, agents, num_tests, test_no, max_steps, step_count, history,
                   last_plan>>
    /\ UNCHANGED <<planVars, supVars, provVars, execVars, contVars,
                   rateVars, repVars>>

\* Mutant: the history list lives on from one test case to the next.
FreshHistory_Kept(h) == h

\* main.py 92 `execution_history = []`, state.py 17 `"history": []`: the
\* history a test case starts with, whatever the earlier one left.
FreshHistory(h) == <<>>

\* main.py 215-221: run_test_suite goes on to the next test case.
MainNextTest ==
    /\ runner = "main" /\ pc = "done"
    /\ test_no < num_tests
    /\ test_no' = test_no + 1
    /\ max_steps' \in 0..MaxSteps
    /\ pc' = "perceive"
    /\ step_count' = 0
    /\ history' = FreshHistory(history)
    /\ last_plan' = None
    /\ screenshot' = None
    /\ verdict' = NoVerdict
    /\ evaluations' = 0
    /\ UNCHANGED <<runner, agents, num_tests, results>>
    /\ UNCHANGED <<planVars, supVars, provVars, execVars, contVars,
                   rateVars, repVars>>

(***************************************************************************)
(* app.py: the LangGraph workflow vision -> planner -> executor -> vision  *)
(***************************************************************************)
\* app.py 114: `app.stream(state)` passes no config, so the stream runs
\* under the default recursion_limit of the graph library, 25 super-steps.
RecursionLimit == 25

\* app.py 76-87: the graph runs one node per super-step, in the cycle
\* vision, planner, executor; the super-step of the node that comes next
\* when `count` cycles have been started.
SuperStep(node, count) ==
    IF node = "vision" THEN 3 * count + 1
    ELSE IF node = "planner" THEN 3 * count - 1
    ELSE 3 * count

\* The node that comes next still runs within the recursion limit.
WithinRecursionLimit == SuperStep(pc, step_count) <= RecursionLimit

\* app.py 114: the stream has run RecursionLimit super-steps and a node is
\* still to run: app.stream raises GraphRecursionError, which nothing in
\* app.py 94-120 catches.  The node does not run.
GraphOutOfSteps ==
    /\ runner = "graph" /\ pc \in {"vision", "planner", "executor"}
    /\ ~WithinRecursionLimit
    /\ pc' = "raised"
    /\ UNCHANGED <<runner, agents, num_tests, test_no, max_steps, step_count,
                   history, last_plan, screenshot, verdict, evaluations,
                   results>>
    /\ UNCHANGED <<planVars, supVars, provVars, execVars, contVars,
                   rateVars, repVars>>

\* app.py 20-32 vision_node
VisionNode ==
    /\ runner = "graph" /\ pc = "vision"
    /\ WithinRecursionLimit
    /\ step_count' = step_count + 1
    /\ \E shot \in {"frame", None} : screenshot' = shot
    /\ pc' = "planner"
    /\ UNCHANGED <<runner, agents, num_tests, test_no, max_steps, history, last_plan,
                   verdict, evaluations, results>>
    /\ UNCHANGED <<planVars, supVars, provVars, execVars, contVars,
                   rateVars, repVars>>

\* app.py 60-66 should_continue
ShouldContinue(action_type, count) ==
    IF action_type = "complete" \/ count >= GraphStepLimit
    THEN "end" ELSE "continue"

\* app.py 34-43 planner_node, then the conditional edge of lines 79-86.
PlannerNode ==
    /\ runner = "graph" /\ pc = "planner"
    /\ WithinRecursionLimit
    /\ agents.planner = "fitting"
    /\ \E a \in PlannedKinds :
          /\ last_plan' = a
          /\ pc' = IF ShouldContinue(a, step_count) = "end"
                   THEN "END" ELSE "executor"
    /\ UNCHANGED <<runner, agents, num_tests, test_no, max_steps, step_count, history,
                   screenshot, verdict, evaluations, results>>
    /\ UNCHANGED <<planVars, supVars, provVars, execVars, contVars,
                   rateVars, repVars>>

\* app.py 45-58 executor_node; the history channel adds the returned list
\* (state.py 8: Annotated[List[Dict], operator.add]).
ExecutorNode ==
    /\ runner = "graph" /\ pc = "executor"
    /\ WithinRecursionLimit
    /\ agents.executor = "fitting"
    /\ \E st \in Statuses :
          history' = history \o <<HistoryEntry(step_count, last_plan, st)>>
    /\ pc' = "vision"
    /\ UNCHANGED <<runner, agents, num_tests, test_no, max_steps, step_count,
                   last_plan, screenshot, verdict, evaluations, results>>
    /\ UNCHANGED <<planVars, supVars, provVars, execVars, contVars,
                   rateVars, repVars>>

\* app.py 106-120: the stream of one test case is over, the next starts from
\* get_initial_state.
GraphNextTest ==
    /\ runner = "graph" /\ pc = "END"
    /\ test_no < num_tests
    /\ test_no' = test_no + 1
    /\ pc' = "vision"
    /\ step_count' = 0
    /\ history' = FreshHistory(history)
    /\ last_plan' = None
    /\ screenshot' = None
    /\ UNCHANGED <<runner, agents, num_tests, max_steps, verdict, evaluations, results>>
    /\ UNCHANGED <<planVars, supVars, provVars, execVars, contVars,
                   rateVars, repVars>>

(***************************************************************************)
(* Exceptions in the runners.  main.py 65-195 has no try block, and        *)
(* neither has run_test_suite (197-234): an exception raised in a step     *)
(* leaves both and ends in main()'s handler (main.py 325).  app.py 94-120  *)
(* has none either: an exception of a node leaves app.stream and the run.  *)
(* The actions below are steps of a runner that holds agents of src: the   *)
(* constructors cannot build one (Construct), so they are steps of         *)
(* SpecWired, whose runner got its agents by assignment to the attributes  *)
(* self.planner, self.executor, self.supervisor of main.py 51-57 and to    *)
(* the module names planner, executor of app.py 15-16.                     *)
(***************************************************************************)
\* main.py 126 with planner.py 70: plan_next_action(goal, ui_context,
\* execution_history) on the planner of src, which requires a fourth
\* argument (screenshot), raises TypeError, at the first step already.
MainPlanRaises ==
    /\ runner = "main" /\ pc = "plan"
    /\ agents.planner = "src"
    /\ pc' = "raised"
    /\ UNCHANGED <<runner, agents, num_tests, test_no, max_steps, step_count,
                   history, last_plan, screenshot, verdict, evaluations,
                   results>>
    /\ UNCHANGED <<planVars, supVars, provVars, execVars, contVars,
                   rateVars, repVars>>

\* The actions of the planned kind that the executor may be handed.
PlannedActions(kind) == { a \in ExecActions : a.action_type = kind }

\* main.py 135-141 with executor.py 14-71: execute_action runs to its end on
\* the executor of src (commands, sleeps, size cache), then result["status"]
\* on a result that has the keys success, message and details raises
\* KeyError; no entry is appended.
MainExecuteRaises ==
    /\ runner = "main" /\ pc = "execute"
    /\ agents.executor = "src"
    /\ \E a \in PlannedActions(last_plan) :
          /\ x_action' = a
          /\ \E dev \in AnswersFor(a) : ExecutorRuns(a, dev)
    /\ x_calls' = x_calls + 1
    /\ x_pc' = "returned"
    /\ pc' = "raised"
    /\ UNCHANGED <<runner, agents, num_tests, test_no, max_steps, step_count,
                   history, last_plan, screenshot, verdict, evaluations,
                   results>>
    /\ UNCHANGED <<planVars, supVars, provVars, contVars, repVars>>

\* main.py 161-164 with supervisor.py: the final frame is captured, then
\* self.supervisor.evaluate_test raises AttributeError on the supervisor of
\* src, whose method is evaluate_test_result; no verdict, no result.
MainEvaluateRaises ==
    /\ runner = "main" /\ pc = "terminate"
    /\ agents.supervisor = "src"
    /\ \E shot \in {"frame", None} : screenshot' = shot
    /\ pc' = "raised"
    /\ UNCHANGED <<runner, agents, num_tests, test_no, max_steps, step_count,
                   history, last_plan, verdict, evaluations, results>>
    /\ UNCHANGED <<planVars, supVars, provVars, execVars, contVars,
                   rateVars, repVars>>

\* app.py 38-42 with planner.py 70: the keywords goal, ui_context and
\* history are no parameters of the planner of src: TypeError.
PlannerNodeRaises ==
    /\ runner = "graph" /\ pc = "planner"
    /\ WithinRecursionLimit
    /\ agents.planner = "src"
    /\ pc' = "raised"
    /\ UNCHANGED <<runner, agents, num_tests, test_no, max_steps, step_count,
                   history, last_plan, screenshot, verdict, evaluations,
                   results>>
    /\ UNCHANGED <<planVars, supVars, provVars, execVars, contVars,
                   rateVars, repVars>>

\* app.py 50 with executor.py: the executor of src has no method execute:
\* AttributeError, no entry is added.
ExecutorNodeRaises ==
    /\ runner = "graph" /\ pc = "executor"
    /\ WithinRecursionLimit
    /\ agents.executor = "src"
    /\ pc' = "raised"
    /\ UNCHANGED <<runner, agents, num_tests, test_no, max_steps, step_count,
                   history, last_plan, screenshot, verdict, evaluations,
                   results>>
    /\ UNCHANGED <<planVars, supVars, provVars, execVars, contVars,
                   rateVars, repVars>>

\* The steps of a test case on agents that answer.
RunNext ==
    \/ MainPerceive
    \/ MainLoopExhausted
    \/ MainPlan
    \/ MainExecute
    \/ MainEvaluate
    \/ MainNextTest
    \/ VisionNode
    \/ PlannerNode
    \/ ExecutorNode
    \/ GraphOutOfSteps
    \/ GraphNextTest

Next == Construct \/ RunNext

Spec == Init /\ [][Next]_vars

\* A runner whose agents were put in place after the construction, of
\* either kind each, at the start of its first test case.
WiredInit ==
    /\ runner \in {"main", "graph"}
    /\ agents \in Wirings(runner)
    /\ num_tests \in 1..MaxTests
    /\ test_no = 1
    /\ max_steps \in IF runner = "main" THEN 0..MaxSteps ELSE {GraphStepLimit}
    /\ pc = StartPc(runner)
    /\ step_count = 0
    /\ history = <<>>
    /\ last_plan = None
    /\ screenshot = None
    /\ verdict = NoVerdict
    /\ evaluations = 0
    /\ results = <<>>
    /\ PlannerOff
    /\ SupervisorOff
    /\ ProviderOff
    /\ ExecutorOff
    /\ ContinueOff
    /\ RateOff
    /\ ReportOff

WiredNext ==
    \/ RunNext
    \/ MainPlanRaises
    \/ MainExecuteRaises
    \/ MainEvaluateRaises
    \/ PlannerNodeRaises
    \/ ExecutorNodeRaises

SpecWired == WiredInit /\ [][WiredNext]_vars

\* The calls are blocking and sequential: a step that can be taken is taken.
FairSpec == Spec /\ WF_vars(Next)

(***************************************************************************)
(* One call of plan_next_action, for every max_retries up to the default   *)
(* and every sequence of model outcomes.                                   *)
(***************************************************************************)
OrchOff ==
    /\ runner = "none" /\ agents = NoAgents /\ num_tests = 0 /\ test_no = 0 /\ max_steps = 0
    /\ pc = "off" /\ step_count = 0 /\ history = <<>> /\ last_plan = None
    /\ screenshot = None /\ verdict = NoVerdict /\ evaluations = 0
    /\ results = <<>>

PlannerInit ==
    /\ OrchOff /\ SupervisorOff /\ ProviderOff /\ ExecutorOff /\ ContinueOff
    /\ RateStart("planner")
    /\ ReportOff
    /\ p_pc = "start"
    /\ p_history \in Histories
    /\ p_frame \in {"frame", None}
    /\ p_summary = <<>>
    /\ p_max_retries \in 0..PlannerMaxRetries
    /\ p_attempt = 0
    /\ p_outcome = NoOutcome
    /\ p_classes = <<>>
    /\ p_action = NoAction
    /\ p_sleeps = <<>>

PlannerNext == PlanSummarize \/ PlanAttempt \/ PlanExhausted

SpecPlanner == PlannerInit /\ [][PlannerNext]_vars

(***************************************************************************)
(* One call of evaluate_test_result.                                       *)
(***************************************************************************)
SupervisorInit ==
    /\ OrchOff /\ PlannerOff /\ ProviderOff /\ ExecutorOff /\ ContinueOff
    /\ RateStart("supervisor")
    /\ ReportOff
    /\ s_pc = "start"
    /\ s_frame \in {"frame", None}
    /\ s_max_retries \in 0..SupervisorMaxRetries
    /\ s_attempt = 0
    /\ s_outcome = NoOutcome
    /\ s_verdict = NoEvaluation
    /\ s_sleeps = <<>>

SupervisorNext == EvalEncode \/ EvalAttempt \/ EvalExhausted

SpecSupervisor == SupervisorInit /\ [][SupervisorNext]_vars

(***************************************************************************)
(* Properties of the orchestrators.                                        *)
(***************************************************************************)
\* The test case is over: run_single_test has built its result (main.py), the
\* graph has reached END (app.py).
RunEnded == pc \in {"done", "END"}

\* Under FairSpec every test case of the suite comes to its end.
RunTerminates == <>(RunEnded /\ test_no = num_tests)

\* C1: the number of executed actions (step counter, history length) never
\* exceeds the configured maximum step count (max_steps of the test case in
\* main.py, the limit 12 of should_continue in app.py).
C1_StepBudget ==
    /\ step_count <= max_steps
    /\ Len(history) <= max_steps
    /\ runner = "graph" => max_steps = GraphStepLimit

\* C1 witness: a test case of main.py that used its whole budget of two or
\* more steps.
C1_Witness ==
    /\ runner = "main" /\ max_steps >= 2
    /\ Len(history) = max_steps /\ step_count = max_steps
    /\ pc = "terminate"

\* C2: when the planner returns complete, the next state is the terminal one
\* (TERMINATE in main.py, END in app.py): nothing is executed or appended,
\* and no perceive, plan or execute step of that test case follows (the
\* test case ends evaluated, or with the exception of the evaluation).
C2_CompleteTerminates ==
    /\ [][(pc \in {"plan", "planner"} /\ last_plan' = "complete")
            => /\ pc' \in {"terminate", "END"}
               /\ history' = history
               /\ step_count' = step_count]_vars
    /\ [][(pc \in {"terminate", "done", "END", "raised"} /\ test_no' = test_no)
            => /\ pc' \in {"terminate", "done", "END", "raised"}
               /\ history' = history
               /\ step_count' = step_count]_vars

\* C2 witness: complete was planned at the first step of a test case with a
\* larger budget, and the orchestrator is at TERMINATE with nothing executed.
C2_Witness ==
    /\ runner = "main" /\ last_plan = "complete" /\ pc = "terminate"
    /\ step_count = 1 /\ max_steps = MaxSteps /\ history = <<>>

\* C3: every test-case run terminates and emits a Verdict: from every state of
\* a test case the orchestrator reaches the end of that test case with a
\* Verdict.
C3_EveryRunEmitsVerdict ==
    \A t \in 1..MaxTests :
        (test_no = t /\ ~RunEnded) ~> (test_no = t /\ RunEnded /\ verdict # NoVerdict)

\* C4: the final evaluation is invoked exactly once per test case and only
\* at the end of the loop: never twice, never before the loop has ended, and
\* no test case ends without it.
C4_EvaluatedExactlyOnce ==
    /\ evaluations <= 1
    /\ RunEnded => evaluations = 1
    /\ evaluations = 1 => pc = "done"

\* C6: the i-th history entry has step i, and within a test case the history
\* only grows at its end: no entry is removed, reordered or rewritten.
C6_HistorySteps ==
    /\ [](\A i \in 1..Len(history) : history[i].step = i)
    /\ [][test_no' = test_no
            => \/ history' = history
               \/ /\ Len(history') = Len(history) + 1
                  /\ SubSeq(history', 1, Len(history)) = history]_vars

\* C6 witness: a history of three entries in the graph runner, with failed
\* and successful actions.
C6_Witness ==
    /\ runner = "graph" /\ Len(history) = 3
    /\ history[1].status = "failed" /\ history[3].status = "success"

(***************************************************************************)
(* Properties of SupervisorAgent.evaluate_test_result (SpecSupervisor).    *)
(***************************************************************************)
\* C5: in every evaluation the supervisor returns, bug_found = true implies
\* result = FAIL; PASS with bug_found true is never returned.
C5_BugFoundImpliesFail ==
    s_pc = "returned" => (s_verdict.bug_found = TRUE => s_verdict.result = "FAIL")

(***************************************************************************)
(* Properties of PlannerAgent.plan_next_action (SpecPlanner).              *)
(***************************************************************************)
\* The model answered at the last attempt with a text that is no valid
\* decision: no JSON, no action_type, or a kind outside the six kinds.
MalformedDecision(o) ==
    /\ o.kind = "text"
    /\ \/ PlannerTry(o).exc # "none"
       \/ PlannerTry(o).action.action_type \notin ActionKinds

\* C7: whatever the model answers, plan_next_action returns an action whose
\* kind is one of the six recognized kinds.
C7_ReturnsRecognizedKind ==
    p_pc = "returned" => p_action.action_type \in ActionKinds

\* C8: when the call returns on a malformed decision, the action returned is
\* the wait fallback, with a duration of 1 to 2 seconds, and not complete.
C8_MalformedGivesShortWait ==
    (p_pc = "returned" /\ MalformedDecision(p_outcome))
        => /\ p_action.action_type = "wait"
           /\ DOMAIN p_action.parameters = {"seconds"}
           /\ p_action.parameters.seconds \in 1..2

\* Every attempt of the call ended with a failure of the backend.
BackendFailedThroughout ==
    /\ p_classes # <<>>
    /\ \A i \in 1..Len(p_classes) : p_classes[i] \in {"rate_limit", "error"}

\* C9: the fallback follows the failure class: a backend that failed on every
\* attempt (rate limit or other failure) gives complete, and a wait action is
\* never the answer to a backend failure.
C9_FallbackByFailureClass ==
    (p_pc = "returned" /\ BackendFailedThroughout)
        => /\ p_action.action_type = "complete"
           /\ p_action # RateLimitFallback

\* The valid action objects without a reasoning field.
NoReasoningDocs ==
    { d \in PlannerDocs :
        /\ JsonDocs[d].type = "object"
        /\ "action_type" \in DOMAIN JsonDocs[d].obj
        /\ JsonDocs[d].obj.action_type \in ActionKinds
        /\ "reasoning" \notin DOMAIN JsonDocs[d].obj }

\* C10: a valid action object in code fences and without reasoning comes
\* back with the same action_type and parameters (an empty mapping when the
\* object has no parameters) and the reasoning "No reasoning provided".
C10_FencedActionDefaults ==
    \A d \in NoReasoningDocs : \A t \in {FencedJson(d), Fenced(d)} :
        p_outcome = TextOutcome(t)
            => /\ p_pc = "returned"
               /\ p_action.action_type = JsonDocs[d].obj.action_type
               /\ p_action.parameters =
                    IF "parameters" \in DOMAIN JsonDocs[d].obj
                    THEN JsonDocs[d].obj.parameters ELSE EmptyMap
               /\ p_action.reasoning = "No reasoning provided"
               /\ DOMAIN p_action = {"action_type", "parameters", "reasoning"}

\* C10 witness: the tap at (500, 300) in a json fence, answered after one
\* failed attempt, came back with its parameters and the placeholder.
C10_Witness ==
    /\ p_pc = "returned" /\ p_attempt = 2
    /\ p_outcome = TextOutcome(FencedJson("TAP_XY"))
    /\ p_action = [action_type |-> "tap", parameters |-> [x |-> 500, y |-> 300],
                   reasoning |-> "No reasoning provided"]

(***************************************************************************)
(* Missing frames.                                                         *)
(***************************************************************************)
\* C11: without a final frame the evaluation raises nothing and returns
\* exactly result FAIL, bug_found false, reason "no final frame".
C11_NoFinalFrameVerdict ==
    (s_frame = None /\ s_pc # "start")
        => /\ s_pc = "returned"
           /\ s_attempt = 0
           /\ s_verdict.result = "FAIL"
           /\ s_verdict.bug_found = FALSE
           /\ s_verdict.reason = "no final frame"

\* The loop of main.py was left because a capture inside it gave no frame:
\* the step was started, nothing was recorded for it, and the planner did
\* not answer complete.
FrameLostInLoop ==
    /\ runner = "main" /\ pc \in {"terminate", "done"}
    /\ step_count > Len(history)
    /\ last_plan # "complete"

\* C12: after a capture inside the loop gave no frame, nothing more is
\* planned or executed and the verdict of the test case is FAIL with
\* bug_found false.
C12_LostFrameFails ==
    (FrameLostInLoop /\ pc = "done")
        => /\ verdict.result = "FAIL"
           /\ verdict.bug_found = FALSE

(***************************************************************************)
(* One call of generate_response, for the max_retries arguments None       *)
(* (0 stands for it: `max_retries or config.MAX_RETRIES`) and 1..3.        *)
(***************************************************************************)
\* ai_provider.py 100: max_retries = max_retries or config.MAX_RETRIES
EffectiveRetries(arg) == IF arg = 0 THEN MAX_RETRIES ELSE arg

\* The provider has answered no request yet (last_call_time = 0, long ago)
\* or has answered one just now.
ProviderInit ==
    /\ OrchOff /\ PlannerOff /\ SupervisorOff /\ ExecutorOff /\ ContinueOff
    /\ r_now = Ticks(MinDelay) /\ r_last = [c \in Components |-> 0]
    /\ r_log = <<>> /\ r_waits = <<>>
    /\ g_last \in {0, Ticks(MinDelay)}
    /\ g_waits = <<>>
    /\ ReportOff
    /\ g_pc = "loop"
    /\ g_max_retries \in { EffectiveRetries(a) : a \in 0..MAX_RETRIES }
    /\ g_attempt = 0
    /\ g_outcome = NoHttp
    /\ g_result = NoResponse
    /\ g_sleeps = <<>>
    /\ g_requests = 0
    /\ g_kinds = <<>>
    /\ g_call_count = 0

ProviderNext == GenerateStep \/ GenerateExhausted

SpecProvider == ProviderInit /\ [][ProviderNext]_vars

(***************************************************************************)
(* Backoff on rate limits.                                                 *)
(***************************************************************************)
\* Every attempt of the generate_response call was answered with a 429.
RateLimitedThroughout ==
    /\ g_kinds # <<>>
    /\ \A i \in 1..Len(g_kinds) : g_kinds[i] = "429"

\* C13: on repeated 429 responses the wait before attempt i+1 is
\* base * 2^i (base: the first wait), at most max_retries attempts are made,
\* and after the last one the call returns its fallback.
C13_ExponentialBackoff ==
    RateLimitedThroughout
        => /\ \A i \in 1..Len(g_sleeps) : g_sleeps[i] = g_sleeps[1] * Pow2(i - 1)
           /\ g_requests <= g_max_retries
           /\ g_pc = "returned"
                => /\ g_result.type = "dict"
                   /\ g_result.value.action_type = "wait"
                   /\ g_result.value.parameters = [seconds |-> 2]

RECURSIVE SumSeq(_)
\* sum of the waits of a sequence
SumSeq(s) == IF s = <<>> THEN 0 ELSE Head(s) + SumSeq(Tail(s))

\* C14: with max_retries = 3 and a rate limit on each of the 3 attempts, the
\* waits before the fallback add up to base * (1 + 2 + 4), base being the
\* first wait.
C14_BackoffSum ==
    (p_pc = "returned" /\ p_max_retries = 3
       /\ p_classes = <<"rate_limit", "rate_limit", "rate_limit">>)
        => /\ p_sleeps # <<>>
           /\ SumSeq(p_sleeps) = 7 * p_sleeps[1]

(***************************************************************************)
(* A device session: execute_action calls one after the other on one       *)
(* ADBInterface, whose size cache starts empty (adb.py 20).                *)
(***************************************************************************)
ExecutorInit ==
    /\ OrchOff /\ PlannerOff /\ SupervisorOff /\ ProviderOff /\ ContinueOff
    /\ RateOff
    /\ ReportOff
    /\ x_pc = "idle"
    /\ x_action = NoExecAction
    /\ x_device = NoDevice
    /\ x_result = NoResult
    /\ x_commands = <<>>
    /\ x_slept = 0
    /\ x_cache = NoSize
    /\ x_calls = 0
    /\ x_queries = 0

ExecutorNext == ExecCall \/ ExecReturn

SpecExecutor == ExecutorInit /\ [][ExecutorNext]_vars

(***************************************************************************)
(* The orchestrators and the device session side by side: the behaviours   *)
(* of Spec and those of SpecExecutor.                                      *)
(***************************************************************************)
SpecAgent == (Init \/ ExecutorInit) /\ [][Next \/ ExecutorNext]_vars

(***************************************************************************)
(* Properties of ExecutorAgent.execute_action.                             *)
(***************************************************************************)
\* C15: execute_action always returns a result with a status field; when
\* the device layer raised, the status is failed and the exception text is
\* in the error field of the result.
C15_ResultHasStatus ==
    x_pc = "returned"
        => /\ "status" \in DOMAIN x_result
           /\ x_result.message = "Execution error: str(e)"
                => /\ x_result.status = "failed"
                   /\ "error" \in DOMAIN x_result

\* C16: an action whose kind is not one of the six variants causes no
\* device interaction and is reported as failed.
C16_UnknownKindNotExecuted ==
    (x_pc = "returned" /\ x_action.action_type \notin ActionKinds)
        => /\ x_commands = <<>>
           /\ x_result.success = FALSE

\* C17: executing complete sends no command to the device, blocks for no
\* time, leaves the state of the device layer alone and returns a success
\* result; and the orchestrators never put a complete action into the
\* history, that is, never execute it.
C17_CompleteTouchesNothing ==
    /\ [][(x_pc = "start" /\ x_action.action_type = "complete")
            => /\ x_pc' = "returned"
               /\ x_commands' = <<>>
               /\ x_slept' = 0
               /\ x_cache' = x_cache
               /\ x_result'.success = TRUE]_vars
    /\ [](\A i \in 1..Len(history) : history[i].action # "complete")

\* C17 witness: complete was executed as the second call of a session whose
\* first call had filled the size cache.
C17_Witness ==
    /\ x_pc = "returned" /\ x_action.action_type = "complete"
    /\ x_calls = 2 /\ x_cache = <<720, 1280>>
    /\ x_result.success = TRUE /\ x_commands = <<>>

(***************************************************************************)
(* Failed actions in the loop.                                             *)
(***************************************************************************)
\* The last executed action of the test case failed.
LastActionFailed ==
    history # <<>> /\ history[Len(history)].status = "failed"

\* C18: a failed action does not stop the loop: it is appended to the
\* history with status failed, the orchestrator goes back to PERCEIVE, and
\* with budget left the next frame is captured (the loop then plans, or ends
\* only because that capture gave no frame).
C18_FailureKeepsLoop ==
    /\ [][(pc \in {"execute", "executor"})
            => /\ Len(history') = Len(history) + 1
               /\ SubSeq(history', 1, Len(history)) = history
               /\ pc' \in {"perceive", "vision"}]_vars
    /\ [][(runner = "main" /\ pc = "perceive" /\ LastActionFailed
             /\ step_count < max_steps)
            => /\ step_count' = step_count + 1
               /\ \/ pc' = "plan"
                  \/ pc' = "terminate" /\ screenshot' = None]_vars

(***************************************************************************)
(* One call of should_continue.                                            *)
(***************************************************************************)
ContinueInit ==
    /\ OrchOff /\ PlannerOff /\ SupervisorOff /\ ProviderOff /\ ExecutorOff
    /\ RateStart("supervisor")
    /\ ReportOff
    /\ c_pc = "start"
    /\ c_frame \in {"frame", None}
    /\ c_actions \in ActionCounts
    /\ c_max_retries \in 0..SupervisorMaxRetries
    /\ c_attempt = 0
    /\ c_outcome = NoOutcome
    /\ c_decision = NoDecision
    /\ c_sleeps = <<>>
    /\ c_blocked \in {b \in 0..MaxBlocked : b <= c_actions}

ContinueNext == ContinueEncode \/ ContinueStep \/ ContinueExhausted

SpecContinue == ContinueInit /\ [][ContinueNext]_vars

(***************************************************************************)
(* Properties of the supervisory check.                                    *)
(***************************************************************************)
\* C19: after EXECUTE, once the step counter is past the threshold, the
\* orchestrator calls should_continue before anything else.  Stated for the
\* largest threshold below the step budget: after the execute step that uses
\* up the budget the next state is the supervisory check.
C19_CheckAfterExecute ==
    [][(runner = "main" /\ pc = "execute" /\ step_count = max_steps)
         => pc' = "should_continue"]_vars

\* C20: with the step budget exhausted (the history holds at least the
\* budgeted number of actions) should_continue returns continue = false,
\* whatever the model answers.
C20_BudgetFirst ==
    (c_pc = "returned" /\ c_actions >= ContinueLimit)
        => c_decision.continue = FALSE

\* The last attempt of the call ended with an exception (the model call
\* raised, or its answer was not a JSON object).
LastAttemptFailed ==
    c_attempt >= 1 /\ ~ContinueTry(c_outcome, c_actions).ok

\* The answer of the last attempt is a JSON object without a continue field.
NoContinueField ==
    /\ c_attempt >= 1 /\ c_outcome.kind = "text"
    /\ LET j == JsonLoads(ContinueClean(c_outcome.text)) IN
       j.ok /\ j.value.type = "object" /\ "continue" \notin DOMAIN j.value.obj

\* C21: when every attempt of should_continue fails, or the answer has no
\* continue field, the call returns (an exception leaves the function only
\* before the first attempt, when there is no frame to encode) and the
\* decision is continue = false at 12 or more actions, continue = true below.
C21_FailureDefault ==
    /\ (c_pc = "raised" => (c_frame = None /\ c_attempt = 0))
    /\ (c_pc = "returned" /\ (LastAttemptFailed \/ NoContinueField))
          => c_decision.continue = (c_actions < ContinueLimit)

\* Three failed attempts at exactly 12 actions: two sleeps, then the default
\* decision, which is to stop.
C21_Witness ==
    /\ c_pc = "returned" /\ c_max_retries = 3 /\ Len(c_sleeps) = 2
    /\ LastAttemptFailed
    /\ c_actions = ContinueLimit
    /\ c_decision = [continue |-> FALSE, reasoning |-> "Default due to error"]

\* C22: stuck-loop detection.  A call of should_continue made after 3
\* consecutive blocked steps without a new element, below the action limit,
\* returns continue = false.
C22_StuckLoopStops ==
    (c_pc = "returned" /\ c_blocked >= 3 /\ c_actions < ContinueLimit)
        => c_decision.continue = FALSE

\* The loop of the test case has been left and the run is not yet evaluated.
LoopLeft == runner = "main" /\ pc \in {"terminate", "raised"}

\* C23: the loop of a test case is left only because the planner returned
\* complete, the step budget was reached, or no frame was available (the
\* orchestrator has no should_continue call, C19); nothing else ends it.
C23_LoopExits ==
    LoopLeft => \/ last_plan = "complete"
                \/ ~LoopHasNext(step_count, max_steps)
                \/ screenshot = None

(***************************************************************************)
(* The model calls of one process and their rate limiters.                 *)
(***************************************************************************)
RateInit ==
    /\ OrchOff /\ PlannerOff /\ SupervisorOff /\ ProviderOff /\ ExecutorOff
    /\ ContinueOff
    /\ RateOff
    /\ ReportOff

RateNext == RateTick \/ RateCall

SpecRate == RateInit /\ [][RateNext]_vars

\* C24: any two consecutive model calls of the process, whichever components
\* make them, are at least the minimum interval apart.
C24_ProcessWideDelay ==
    \A i \in 2..Len(r_log) : r_log[i][2] - r_log[i-1][2] >= MinInterval

(***************************************************************************)
(* Properties of the coordinates, keys and waits of the executor.          *)
(***************************************************************************)
\* executor.py 75-76, 140-143: the coordinate parameters of tap and swipe
CoordKeys == {"x_percent", "y_percent", "start_x_percent", "start_y_percent",
              "end_x_percent", "end_y_percent"}

\* The action of the call is a tap or a swipe.
IsPointer == x_action.action_type \in {"tap", "swipe"}

\* Every coordinate the action gives lies in lo..hi.
CoordsWithin(lo, hi) ==
    /\ x_action.parameters # NotADict
    /\ \A k \in DOMAIN x_action.parameters \cap CoordKeys :
          x_action.parameters[k] \in lo..hi

\* adb.py 80-104: the screen size the call worked with: the cached size, or
\* the default when none could be read.
ScreenSizeUsed == IF x_cache # NoSize THEN x_cache ELSE DEFAULT_SCREEN_SIZE

\* The tap and swipe commands that reached the device during the call.
PointerCommands ==
    { i \in 1..Len(x_commands) : x_commands[i].cmd \in {"tap", "swipe"} }

\* The points (x, y) of a tap or swipe command.
Points(c) ==
    IF c.cmd = "tap" THEN { <<c.nums[1], c.nums[2]>> }
    ELSE { <<c.nums[1], c.nums[2]>>, <<c.nums[3], c.nums[4]>> }

\* C25: for a tap or swipe with coordinates in [0,1000] the pixel
\* coordinates sent to the device lie within [0,w] x [0,h] of the screen.
C25_PixelsInScreen ==
    (x_pc = "returned" /\ IsPointer /\ CoordsWithin(0, 1000))
        => \A i \in PointerCommands : \A pt \in Points(x_commands[i]) :
              /\ pt[1] \in 0..ScreenSizeUsed[1]
              /\ pt[2] \in 0..ScreenSizeUsed[2]

\* Some coordinate of the action is a number outside lo..hi.
CoordOutside(lo, hi) ==
    /\ x_action.parameters # NotADict
    /\ \E k \in DOMAIN x_action.parameters \cap CoordKeys :
          /\ x_action.parameters[k] # NotANumber
          /\ x_action.parameters[k] \notin lo..hi

\* C26: a tap or swipe with a coordinate below 0 or above the maximum is
\* rejected: the result is a failure and no tap or swipe reaches the device.
C26_OutOfRangeRejected ==
    (x_pc = "returned" /\ IsPointer /\ CoordOutside(0, 1000))
        => /\ x_result.success = FALSE
           /\ PointerCommands = {}

\* adb.py 233-239: the key names and key codes of the device layer
AdbKeyMap == [enter |-> 66, back |-> 4, home |-> 3, backspace |-> 67,
              menu |-> 82]

\* C27: press_key with a name of the table {back, home, enter, backspace,
\* menu} sends the key event with the code of the name; with any other name
\* it sends nothing and returns a failure, not an exception.
C27_KeyTable ==
    (x_pc = "returned" /\ x_action.action_type = "press_key"
       /\ x_action.parameters # NotADict)
        => LET key == Lower(Get(x_action.parameters, "key", "")) IN
           IF key \in DOMAIN AdbKeyMap
           THEN x_commands = <<Command("keyevent", <<AdbKeyMap[key]>>, "")>>
           ELSE /\ x_commands = <<>>
                /\ x_result.success = FALSE
                /\ x_result.message = "Unknown key"

\* C28: the time the executor blocks for a wait action is at most 60
\* seconds, whatever the plan requests.
C28_WaitCapped ==
    (x_pc = "returned" /\ x_action.action_type = "wait") => x_slept <= 60

(***************************************************************************)
(* Properties of the history the planner sends.                            *)
(***************************************************************************)
\* C29: the history in the planner's request is exactly the last 3 entries
\* of the history it was given (all of them when there are at most 3), in
\* their order, oldest first.
C29_HistoryWindow ==
    p_pc \in {"loop", "returned"}
        => LET n == Len(p_history)
               k == IF n > 3 THEN 3 ELSE n
           IN  /\ Len(p_summary) = k
               /\ \A i \in 1..k : p_summary[i] = SummaryLine(p_history[n - k + i])

\* A call with five entries returned: the request carried steps 3, 4 and 5.
C29_Witness ==
    /\ p_pc = "returned" /\ Len(p_history) = 5
    /\ Len(p_summary) = 3
    /\ p_summary[1].step = 3 /\ p_summary[2].step = 4 /\ p_summary[3].step = 5

(***************************************************************************)
(* Properties of the start of a test case.                                 *)
(***************************************************************************)
\* C30: every test case of a suite starts with step counter 0, an empty
\* history and no last plan; the entries in the history never carry a step
\* beyond the step counter of the running test case.
C30_FreshTestCase ==
    /\ [][test_no' # test_no
            => /\ step_count' = 0
               /\ history' = <<>>
               /\ last_plan' = None
               /\ pc' = StartPc(runner)]_vars
    /\ [](\A i \in 1..Len(history) : history[i].step <= step_count)

\* The second test case of a suite is about to start, after a first one that
\* recorded actions.
C30_Witness ==
    /\ runner = "main" /\ test_no = 2 /\ pc = "perceive"
    /\ step_count = 0 /\ history = <<>> /\ last_plan = None
    /\ Len(results) = 1 /\ results[1].steps_executed >= 2

(***************************************************************************)
(* The reporting of a suite's results.                                     *)
(***************************************************************************)
\* The runner that prints the summary holds its three agents, of either
\* kind; no test case is running.
ReportInit ==
    /\ runner = "main" /\ agents \in Wirings("main")
    /\ num_tests = 0 /\ test_no = 0 /\ max_steps = 0
    /\ pc = "off" /\ step_count = 0 /\ history = <<>> /\ last_plan = None
    /\ screenshot = None /\ verdict = NoVerdict /\ evaluations = 0
    /\ results = <<>>
    /\ PlannerOff /\ SupervisorOff /\ ProviderOff /\ ExecutorOff
    /\ ContinueOff /\ RateOff
    /\ rep_pc = "start"
    /\ rep_results \in ResultLists
    /\ rep_summary = NoSummary
    /\ rep_eval = NoVerdict
    /\ rep_report = NoReport

ReportNext == PrintSuiteSummary \/ FormatReport

SpecReport == ReportInit /\ [][ReportNext]_vars

\* C31: a result is counted in Bugs Found and marked as a bug in the summary
\* exactly when its bug_found is true, and a report is labelled BUG FOUND
\* exactly when the evaluation's bug_found is true; a FAIL with bug_found
\* false is never reported as a bug.
C31_BugOnlyWhenFound ==
    /\ rep_pc \in {"summary", "raised", "formatted"}
          => /\ rep_summary.bugs_found =
                   Cardinality({ i \in 1..Len(rep_results) :
                                   rep_results[i].bug_found = TRUE })
             /\ \A i \in 1..Len(rep_results) :
                   (rep_summary.lines[i].bug = "bug")
                       <=> (rep_results[i].bug_found = TRUE)
    /\ rep_pc = "formatted"
          => ((rep_report.status = "BUG FOUND")
                 <=> ("bug_found" \in DOMAIN rep_eval /\ rep_eval.bug_found = TRUE))

\* A suite of two failed tests of which one found a bug, and a report of a
\* failed evaluation without a bug.
C31_Witness ==
    /\ rep_pc = "formatted"
    /\ rep_results = <<[result |-> "FAIL", bug_found |-> FALSE],
                       [result |-> "FAIL", bug_found |-> TRUE]>>
    /\ rep_summary.failed = 2 /\ rep_summary.bugs_found = 1
    /\ rep_summary.lines[1].bug = "blank"
    /\ rep_eval = [result |-> "FAIL", bug_found |-> FALSE]
    /\ rep_report.status = "NO BUG"

(***************************************************************************)
(* Properties of the order of the orchestrators' steps.                    *)
(***************************************************************************)
\* C32: the orchestrator plans only after the capture of the step, and
\* executes only an action planned in the same step on a fresh frame: at
\* EXECUTE the step has one capture and one plan more than the history has
\* entries, the plan is an action to execute, and the frame of the step is
\* present.
C32_FreshFrameAndPlan ==
    /\ pc \in {"plan", "planner"} => step_count = Len(history) + 1
    /\ pc \in {"execute", "executor"}
          => /\ step_count = Len(history) + 1
             /\ last_plan \in ActionKinds \ {"complete"}
             /\ screenshot # None

(***************************************************************************)
(* Properties of the planner's parsing and retries.                        *)
(***************************************************************************)
\* The documents that are one valid action object.
ValidActionDocs ==
    { d \in PlannerDocs :
        /\ JsonDocs[d].type = "object"
        /\ "action_type" \in DOMAIN JsonDocs[d].obj
        /\ JsonDocs[d].obj.action_type \in ActionKinds }

\* C33: a response that holds one valid action object with prose before it
\* or around its code fence makes the planner return that action (its
\* action_type and parameters), at the attempt that received it.
C33_ProseAroundAction ==
    \A d \in ValidActionDocs : \A t \in {ProseBefore(d), ProseAround(d)} :
        p_outcome = TextOutcome(t)
            => /\ p_pc = "returned"
               /\ p_action.action_type = JsonDocs[d].obj.action_type
               /\ p_action.parameters =
                    IF "parameters" \in DOMAIN JsonDocs[d].obj
                    THEN JsonDocs[d].obj.parameters ELSE EmptyMap

(***************************************************************************)
(* Properties of the type action and of the screen size cache.             *)
(***************************************************************************)
\* C34: a type action without text or with an empty text fails and sends
\* nothing to the device; with a text it sends exactly one text-input
\* command, and its result is a success exactly when the device accepted
\* the command.
C34_TypeNeedsText ==
    (x_pc = "returned" /\ x_action.action_type = "type"
       /\ x_action.parameters # NotADict)
        => LET text == Get(x_action.parameters, "text", "") IN
           IF text = ""
           THEN x_result.success = FALSE /\ x_commands = <<>>
           ELSE /\ Len(x_commands) = 1
                /\ x_commands[1].cmd = "text"
                /\ x_commands[1].text = FormatText(text)
                /\ x_result.success = (x_device.run = "ok")

\* A text with a space was sent as one command that the device refused.
C34_Witness ==
    /\ x_pc = "returned" /\ x_action.action_type = "type"
    /\ x_action.parameters = [text |-> "hello world"]
    /\ x_device.run = "error"
    /\ x_commands = <<Command("text", <<>>, "hello%sworld")>>
    /\ x_result.success = FALSE

\* C35: within one device session the screen size is asked of the device at
\* most once, whatever the answer to the first query was.
C35_SizeQueriedOnce == x_queries <= 1

\* The fallback actions of the planner (planner.py 149-153, 166-170,
\* 178-182, 184-188).
PlannerFallbacks ==
    {ParseFallback, RateLimitFallback, ErrorFallback, RetriesFallback}

\* C36: one plan costs at most max_retries model calls; no call follows a
\* successful attempt; the call returns the parsed action of the first
\* successful attempt, and a fallback only when max_retries attempts have
\* failed in a row.
C36_RetriesThenFallback ==
    /\ Len(p_classes) = p_attempt /\ p_attempt <= p_max_retries
    /\ \A i \in 1..(Len(p_classes) - 1) : p_classes[i] # "ok"
    /\ p_pc = "loop" => \A i \in 1..Len(p_classes) : p_classes[i] # "ok"
    /\ p_pc = "returned"
          => \/ /\ p_classes # <<>> /\ p_classes[Len(p_classes)] = "ok"
                /\ p_action = PlannerTry(p_outcome).action
             \/ /\ \A i \in 1..Len(p_classes) : p_classes[i] # "ok"
                /\ Len(p_classes) = p_max_retries
                /\ p_action \in PlannerFallbacks

\* Two failed attempts, then the tap of the third attempt was returned.
C36_Witness ==
    /\ p_pc = "returned" /\ p_max_retries = 3
    /\ p_classes = <<"parse", "rate_limit", "ok">>
    /\ p_action.action_type = "tap"

\* The generate_response call ended without a usable answer: its last
\* request was not a 200 with choices and content.
ProviderFailed == g_pc = "returned" /\ g_kinds # <<>>
                     /\ g_kinds[Len(g_kinds)] # "200"

\* C37: generate_response sends at most max_retries requests, always
\* returns, returns the wait-2-seconds fallback on every failure path, and
\* call_count grows by one for each request that returned a response.
C37_ProviderNeverRaises ==
    /\ g_requests <= g_max_retries /\ g_requests = Len(g_kinds)
    /\ g_pc \in {"loop", "returned"}
    /\ g_pc = "loop" => g_attempt <= g_max_retries
    /\ g_call_count = Cardinality({ i \in 1..Len(g_kinds) :
                          g_kinds[i] \notin {"Timeout", "ConnectionError",
                                             "Exception"} })
    /\ ProviderFailed
          => /\ g_result.type = "dict"
             /\ g_result.value.action_type = "wait"
             /\ g_result.value.parameters = [seconds |-> 2]

\* A timeout, a 500 and a final 429: three requests, two responses counted,
\* the wait fallback returned.
C37_Witness ==
    /\ g_pc = "returned" /\ g_kinds = <<"Timeout", "500", "429">>
    /\ g_requests = 3 /\ g_call_count = 2
    /\ g_result.value.action_type = "wait"

\* C38: in the graph orchestrator the counter is raised by the vision node,
\* before planning, and compared with the constant 12: a run makes at most
\* 12 perceive cycles and executes at most 11 actions, it ends after a
\* planner node, and the action planned in the last cycle is not executed.
\* A run that has started a cycle ends at END only, never with an exception.
C38_GraphStepLimit ==
    runner = "graph"
        => /\ step_count <= 12 /\ Len(history) <= 11
           /\ pc = "planner" => step_count = Len(history) + 1
           /\ pc = "executor" => /\ step_count = Len(history) + 1
                                 /\ step_count < 12
                                 /\ last_plan # "complete"
           /\ pc = "END" => /\ step_count = Len(history) + 1
                            /\ last_plan # None
                            /\ last_plan = "complete" \/ step_count = 12
           /\ pc = "raised" => step_count = 0

\* The last attempt of the evaluation parsed a JSON object.
LastEvaluationParsed == s_pc = "returned" /\ SupervisorTry(s_outcome).ok

\* The object the model answered at the last attempt.
AnsweredObject == JsonLoads(SupervisorClean(s_outcome.text)).value.obj

\* C39: with a frame, evaluate_test_result always returns a verdict whose
\* result is PASS or FAIL and that has reason, bug_found and details; a
\* missing or unrecognized result becomes FAIL, a missing bug_found becomes
\* false, and when every attempt fails the verdict is FAIL without a bug.
C39_VerdictAlwaysComplete ==
    s_frame = "frame"
        => /\ s_pc \in {"start", "loop", "returned"}
           /\ s_pc = "returned"
                => /\ s_verdict.result \in {"PASS", "FAIL"}
                   /\ {"reason", "bug_found", "details"} \subseteq DOMAIN s_verdict
           /\ LastEvaluationParsed
                => LET d == AnsweredObject IN
                   /\ s_verdict.result =
                        IF "result" \in DOMAIN d /\ d.result \in {"PASS", "FAIL"}
                        THEN d.result ELSE "FAIL"
                   /\ s_verdict.bug_found =
                        IF "bug_found" \in DOMAIN d THEN d.bug_found ELSE FALSE
           /\ (s_pc = "returned" /\ ~SupervisorTry(s_outcome).ok)
                => /\ s_verdict.result = "FAIL" /\ s_verdict.bug_found = FALSE
                   /\ s_attempt = s_max_retries

\* The model answered {"result": "MAYBE", "bug_found": true} after one failed
\* attempt: the verdict returned is FAIL, with the defaults for the rest.
C39_Witness ==
    /\ s_frame = "frame" /\ s_pc = "returned" /\ s_attempt = 2
    /\ LastEvaluationParsed /\ AnsweredObject = JsonDocs["MAYBE_BUG"].obj
    /\ s_verdict = [result |-> "FAIL", bug_found |-> TRUE,
                    reason |-> "No reason", details |-> "No details"]

\* The calls i < j of the log are consecutive calls of one agent instance.
ConsecutiveOfOne(i, j) ==
    /\ r_log[i][1] = r_log[j][1]
    /\ \A k \in (i + 1)..(j - 1) : r_log[k][1] # r_log[i][1]

\* C40: within one agent instance two consecutive model calls, retries
\* included, are at least min_interval apart, and last_call_time is the time
\* of the instance's latest call.
C40_PerAgentInterval ==
    /\ \A i, j \in 1..Len(r_log) :
          (i < j /\ ConsecutiveOfOne(i, j))
              => r_log[j][2] - r_log[i][2] >= MinInterval
    /\ \A i \in 1..Len(r_log) :
          (\A k \in (i + 1)..Len(r_log) : r_log[k][1] # r_log[i][1])
              => r_last[r_log[i][1]] = r_log[i][2]

\* The planner called the model twice in a row, another component called
\* in between, and the planner's calls are exactly one interval apart.
C40_Witness ==
    /\ Len(r_log) = 3
    /\ r_log[1][1] = "planner" /\ r_log[3][1] = "planner"
    /\ r_log[2][1] # "planner"
    /\ r_log[3][2] - r_log[1][2] = MinInterval

=============================================================================
